---- MODULE Spec2Model ----
(***************************************************************************)
(* Share-of-Voice engine of atomberg-sov-analysis: the aggregator          *)
(* (analysis/sov_calculator.py), the normalizer (utils/data_processor.py)  *)
(* and the sentiment scorer (analysis/sentiment_analyzer.py).              *)
(*                                                                         *)
(* Python dicts are functions (records) whose DOMAIN is the key set;       *)
(* dict.get(key, default) is Get.  Python lists are sequences.  Strings    *)
(* that the code inspects character by character (regular expressions,     *)
(* `in`, split) are sequences of one-character strings.  Python floats     *)
(* are exact rationals [n, d] in lowest terms with d > 0, so that two      *)
(* rationals are equal iff they are the same record.                       *)
(***************************************************************************)
EXTENDS Integers, Sequences, FiniteSets, TLC

VARIABLES
    pc,              \* position of the run that the specification describes
    processed_data,  \* calculate_sov: the corpus, keyword -> platform -> posts
    sentiment_data,  \* calculate_sov: the sentiment map, post id -> entry
    sov_metrics,     \* calculate_sov: what the call returned (or that it raised)
    post,            \* one post record handed to the per-post functions
    post_out,        \* what each per-post function returned for it, by function
    raw_post,        \* one raw post as a collector returned it
    processed_post,  \* what _process_single_post returned for raw_post
    recleaned,       \* _clean_text applied to the cleaned text of processed_post
    vader_analyzer,      \* SentimentAnalyzer: whether the VADER analyser was created
    textblob_available,  \* SentimentAnalyzer: whether TextBlob could be imported
    vader_outcome,       \* what polarity_scores does when it is called
    textblob_outcome,    \* what TextBlob(text).sentiment does when it is called
    analyzed_text,       \* the text handed to analyze_text
    sentiment_result,    \* what analyze_text returned for it
    all_results,         \* analyze_sov: the raw results of the collection loop
    escaped_exception    \* analyze_sov: the exception that ended the run, "" if none

sovVars == <<processed_data, sentiment_data, sov_metrics>>

postVars == <<post, post_out>>

textVars == <<raw_post, processed_post, recleaned>>

lexVars ==
    <<vader_analyzer, textblob_available, vader_outcome, textblob_outcome, analyzed_text,
      sentiment_result>>

runVars == <<all_results, escaped_exception>>

vars == <<pc, sovVars, postVars, textVars, lexVars, runVars>>

\* What each specification leaves alone.
nonSovVars == <<postVars, textVars, lexVars, runVars>>

nonPostVars == <<sovVars, textVars, lexVars, runVars>>

nonTextVars == <<sovVars, postVars, lexVars, runVars>>

nonLexVars == <<sovVars, postVars, textVars, runVars>>

nonRunVars == <<postVars, textVars>>

(***************************************************************************)
(* Generic helpers: dicts, sequences, rationals.                           *)
(***************************************************************************)
Get(d, key, default) == IF key \in DOMAIN d THEN d[key] ELSE default

EmptyDict == [x \in {} |-> 0]

DictSet(d, k, v) == [x \in (DOMAIN d) \cup {k} |-> IF x = k THEN v ELSE d[x]]

Range(s) == {s[i] : i \in DOMAIN s}

Max(a, b) == IF a >= b THEN a ELSE b

Min(a, b) == IF a <= b THEN a ELSE b

Abs(x) == IF x < 0 THEN -x ELSE x

RECURSIVE GCD(_, _)
GCD(a, b) == IF b = 0 THEN a ELSE GCD(b, a % b)

Rat(n, d) ==
    LET s == IF d < 0 THEN -1 ELSE 1
        g == GCD(Abs(n), Abs(d))
    IN  [n |-> (s * n) \div g, d |-> (s * d) \div g]

Zero == [n |-> 0, d |-> 1]

One == [n |-> 1, d |-> 1]

RAdd(a, b) == Rat(a.n * b.d + b.n * a.d, a.d * b.d)

RMul(a, b) == Rat(a.n * b.n, a.d * b.d)

RDiv(a, b) == Rat(a.n * b.d, a.d * b.n)

RLt(a, b) == a.n * b.d < b.n * a.d

RLe(a, b) == a.n * b.d <= b.n * a.d

RECURSIVE SumSeq(_)
SumSeq(s) == IF s = <<>> THEN 0 ELSE Head(s) + SumSeq(Tail(s))

RECURSIVE RSumSeq(_)
RSumSeq(s) == IF s = <<>> THEN Zero ELSE RAdd(Head(s), RSumSeq(Tail(s)))

RECURSIVE SumDict(_)
SumDict(d) ==
    IF DOMAIN d = {} THEN 0
    ELSE LET k == CHOOSE x \in DOMAIN d : TRUE
         IN  d[k] + SumDict([x \in (DOMAIN d) \ {k} |-> d[x]])

RECURSIVE RSumDict(_)
RSumDict(d) ==
    IF DOMAIN d = {} THEN Zero
    ELSE LET k == CHOOSE x \in DOMAIN d : TRUE
         IN  RAdd(d[k], RSumDict([x \in (DOMAIN d) \ {k} |-> d[x]]))

\* The elements of s that satisfy the test, in order (a list comprehension).
RECURSIVE SelectIdx(_, _)
SelectIdx(s, keep) ==
    IF s = <<>> THEN <<>>
    ELSE (IF 1 \in keep THEN <<Head(s)>> ELSE <<>>)
         \o SelectIdx(Tail(s), {i - 1 : i \in keep \ {1}})

CountIn(x, s) == Cardinality({i \in DOMAIN s : s[i] = x})

(***************************************************************************)
(* SoVCalculator: per-post scalars.                                        *)
(***************************************************************************)
\* Config.COMPETITORS, read by SoVCalculator.__init__.
COMPETITORS ==
    <<"Havells", "Orient", "Bajaj", "Crompton", "Usha",
      "Symphony", "Voltas", "Khaitan", "Luminous">>

Labels == {"positive", "negative", "neutral"}

mentions_atomberg(p) == Get(p, "mentions_atomberg", FALSE)

mentions_competitors(p) == Get(p, "mentions_competitors", <<>>)

\* Mutant: the search scalar has no floor, (11 - position) * 10.
get_post_engagement_no_floor(p) ==
    LET platform == Get(p, "platform", "")
    IN  IF platform = "youtube" THEN
            Rat(Get(p, "views", 0) + 10 * Get(p, "likes", 0)
                + 20 * Get(p, "comments", 0), 10)
        ELSE IF platform = "twitter" THEN
            Rat(30 * Get(p, "retweets", 0) + 10 * Get(p, "likes", 0)
                + 20 * Get(p, "replies", 0) + 25 * Get(p, "quotes", 0), 10)
        ELSE IF platform = "google" THEN
            Rat((11 - Get(p, "position", 10)) * 10, 1)
        ELSE One

\* Mutant: a post of an unknown platform weighs nothing.
get_post_engagement_default_zero(p) ==
    LET platform == Get(p, "platform", "")
    IN  IF platform = "youtube" THEN
            Rat(Get(p, "views", 0) + 10 * Get(p, "likes", 0)
                + 20 * Get(p, "comments", 0), 10)
        ELSE IF platform = "twitter" THEN
            Rat(30 * Get(p, "retweets", 0) + 10 * Get(p, "likes", 0)
                + 20 * Get(p, "replies", 0) + 25 * Get(p, "quotes", 0), 10)
        ELSE IF platform = "google" THEN
            Rat(Max((11 - Get(p, "position", 10)) * 10, 10), 1)
        ELSE Zero

\* views * 0.1 + likes * 1.0 + comments * 2.0, and its siblings, as rationals.
get_post_engagement(p) ==
    LET platform == Get(p, "platform", "")
    IN  IF platform = "youtube" THEN
            Rat(Get(p, "views", 0) + 10 * Get(p, "likes", 0)
                + 20 * Get(p, "comments", 0), 10)
        ELSE IF platform = "twitter" THEN
            Rat(30 * Get(p, "retweets", 0) + 10 * Get(p, "likes", 0)
                + 20 * Get(p, "replies", 0) + 25 * Get(p, "quotes", 0), 10)
        ELSE IF platform = "google" THEN
            Rat(Max(11 - Get(p, "position", 10), 1) * 10, 1)
        ELSE One

\* 1 / page raises ZeroDivisionError when page is 0.
get_post_visibility_raises(p) ==
    Get(p, "platform", "") = "google" /\ Get(p, "page", 1) = 0

get_post_visibility(p) ==
    LET platform == Get(p, "platform", "")
        engagement == get_post_engagement(p)
    IN  IF platform = "youtube" THEN
            RAdd(Rat(Get(p, "views", 0), 100), RMul(engagement, Rat(1, 10)))
        ELSE IF platform = "twitter" THEN
            RAdd(Rat(Get(p, "author_followers", 0), 1000),
                 RMul(engagement, Rat(1, 10)))
        ELSE IF platform = "google" THEN
            RMul(Rat((11 - Get(p, "position", 10)) * (11 - Get(p, "position", 10)), 1),
                 Rat(1, Get(p, "page", 1)))
        ELSE engagement

(***************************************************************************)
(* SoVCalculator: the sub-metrics over the flattened post list.            *)
(***************************************************************************)
\* The keys a defaultdict gets while every post's competitor list is walked.
CompetitorKeys(posts) == UNION {Range(mentions_competitors(posts[i])) : i \in DOMAIN posts}

AtombergIdx(posts) == {i \in DOMAIN posts : mentions_atomberg(posts[i])}

CompetitorIdx(posts, c) == {i \in DOMAIN posts : c \in Range(mentions_competitors(posts[i]))}

\* Mutant: the denominator counts each competitor once, not each mention.
calculate_mention_share_distinct(posts) ==
    LET atomberg_mentions == Cardinality(AtombergIdx(posts))
        competitor_counts ==
            [c \in CompetitorKeys(posts) |->
                SumSeq([i \in DOMAIN posts |-> CountIn(c, mentions_competitors(posts[i]))])]
        total_brand_mentions == atomberg_mentions + Cardinality(DOMAIN competitor_counts)
    IN  IF total_brand_mentions = 0 THEN
            [atomberg |-> Zero, competitors |-> EmptyDict, total_mentions |-> 0]
        ELSE
            [atomberg |-> Rat(atomberg_mentions, total_brand_mentions),
             competitors |-> [c \in DOMAIN competitor_counts |->
                                 Rat(competitor_counts[c], total_brand_mentions)],
             total_mentions |-> total_brand_mentions,
             atomberg_mentions |-> atomberg_mentions]

calculate_mention_share(posts) ==
    LET atomberg_mentions == Cardinality(AtombergIdx(posts))
        competitor_counts ==
            [c \in CompetitorKeys(posts) |->
                SumSeq([i \in DOMAIN posts |-> CountIn(c, mentions_competitors(posts[i]))])]
        total_brand_mentions == atomberg_mentions + SumDict(competitor_counts)
    IN  IF total_brand_mentions = 0 THEN
            [atomberg |-> Zero, competitors |-> EmptyDict, total_mentions |-> 0]
        ELSE
            [atomberg |-> Rat(atomberg_mentions, total_brand_mentions),
             competitors |-> [c \in DOMAIN competitor_counts |->
                                 Rat(competitor_counts[c], total_brand_mentions)],
             total_mentions |-> total_brand_mentions,
             atomberg_mentions |-> atomberg_mentions]

\* Mutant: a post's engagement is split among the competitors it mentions.
calculate_engagement_share_split(posts) ==
    LET atomberg_engagement ==
            RSumSeq([i \in DOMAIN posts |->
                IF mentions_atomberg(posts[i]) THEN get_post_engagement(posts[i]) ELSE Zero])
        competitor_engagement ==
            [c \in CompetitorKeys(posts) |->
                RSumSeq([i \in DOMAIN posts |->
                    IF c \in Range(mentions_competitors(posts[i]))
                    THEN RDiv(get_post_engagement(posts[i]),
                              Rat(Len(mentions_competitors(posts[i])), 1))
                    ELSE Zero])]
        total_engagement == RAdd(atomberg_engagement, RSumDict(competitor_engagement))
    IN  IF total_engagement = Zero THEN
            [atomberg |-> Zero, competitors |-> EmptyDict, total_engagement |-> Zero]
        ELSE
            [atomberg |-> RDiv(atomberg_engagement, total_engagement),
             competitors |-> [c \in DOMAIN competitor_engagement |->
                                 RDiv(competitor_engagement[c], total_engagement)],
             total_engagement |-> total_engagement,
             atomberg_engagement |-> atomberg_engagement]

calculate_engagement_share(posts) ==
    LET atomberg_engagement ==
            RSumSeq([i \in DOMAIN posts |->
                IF mentions_atomberg(posts[i]) THEN get_post_engagement(posts[i]) ELSE Zero])
        competitor_engagement ==
            [c \in CompetitorKeys(posts) |->
                RSumSeq([i \in DOMAIN posts |->
                    RMul(Rat(CountIn(c, mentions_competitors(posts[i])), 1),
                         get_post_engagement(posts[i]))])]
        total_engagement == RAdd(atomberg_engagement, RSumDict(competitor_engagement))
    IN  IF total_engagement = Zero THEN
            [atomberg |-> Zero, competitors |-> EmptyDict, total_engagement |-> Zero]
        ELSE
            [atomberg |-> RDiv(atomberg_engagement, total_engagement),
             competitors |-> [c \in DOMAIN competitor_engagement |->
                                 RDiv(competitor_engagement[c], total_engagement)],
             total_engagement |-> total_engagement,
             atomberg_engagement |-> atomberg_engagement]

\* Mutant: a post without an entry in the sentiment map counts as positive.
post_sentiment_default_positive(p, sentiments) ==
    Get(Get(sentiments, Get(p, "id", ""), EmptyDict), "sentiment", "positive")

\* sentiment_data.get(post_id, {}).get('sentiment', 'neutral')
post_sentiment(p, sentiments) ==
    Get(Get(sentiments, Get(p, "id", ""), EmptyDict), "sentiment", "neutral")

calculate_sentiment_share(posts, sentiments) ==
    LET atomberg_sentiments ==
            [l \in Labels |->
                Cardinality({i \in AtombergIdx(posts) : post_sentiment(posts[i], sentiments) = l})]
        competitor_sentiments ==
            [c \in CompetitorKeys(posts) |->
                [l \in Labels |->
                    SumSeq([i \in DOMAIN posts |->
                        IF post_sentiment(posts[i], sentiments) = l
                        THEN CountIn(c, mentions_competitors(posts[i])) ELSE 0])]]
        total_positive ==
            atomberg_sentiments["positive"]
            + SumDict([c \in DOMAIN competitor_sentiments |-> competitor_sentiments[c]["positive"]])
        positive_share ==
            IF total_positive = 0 THEN Zero
            ELSE Rat(atomberg_sentiments["positive"], total_positive)
        total_atomberg == SumDict(atomberg_sentiments)
        atomberg_sentiment_dist ==
            IF total_atomberg > 0
            THEN [l \in Labels |-> Rat(atomberg_sentiments[l], total_atomberg)]
            ELSE EmptyDict
    IN  [positive |-> positive_share,
         atomberg_sentiment_distribution |-> atomberg_sentiment_dist,
         competitor_sentiment_distribution |-> competitor_sentiments,
         total_positive_mentions |-> total_positive,
         atomberg_positive_mentions |-> atomberg_sentiments["positive"]]

\* One (keyword, platform) bucket's value; the loop stores it under the platform.
bucket_sov(posts) ==
    IF posts = <<>> THEN Zero
    ELSE LET atomberg_mentions == Cardinality(AtombergIdx(posts))
             total_brand_mentions ==
                 atomberg_mentions
                 + SumSeq([i \in DOMAIN posts |-> Len(mentions_competitors(posts[i]))])
         IN  IF total_brand_mentions > 0
             THEN Rat(atomberg_mentions, total_brand_mentions)
             ELSE Zero

RECURSIVE breakdown_platforms(_, _)
breakdown_platforms(platform_sov, keyword_data) ==
    IF keyword_data = <<>> THEN platform_sov
    ELSE breakdown_platforms(
            DictSet(platform_sov, Head(keyword_data).platform,
                    bucket_sov(Head(keyword_data).posts)),
            Tail(keyword_data))

RECURSIVE breakdown_keywords(_, _)
breakdown_keywords(platform_sov, data) ==
    IF data = <<>> THEN platform_sov
    ELSE breakdown_keywords(breakdown_platforms(platform_sov, Head(data).data), Tail(data))

\* Mutant: a platform keeps the value of its first keyword's bucket.
calculate_platform_breakdown_first_keyword(data) ==
    breakdown_keywords(EmptyDict, [k \in DOMAIN data |-> data[Len(data) + 1 - k]])

calculate_platform_breakdown(data) == breakdown_keywords(EmptyDict, data)

\* Mutant: the total counts the brand-mentioning posts only.
calculate_visibility_score_brand_posts(posts) ==
    IF posts = <<>> THEN Zero
    ELSE LET total_visibility ==
                 RSumSeq([i \in DOMAIN posts |->
                     IF mentions_atomberg(posts[i]) \/ mentions_competitors(posts[i]) # <<>>
                     THEN get_post_visibility(posts[i]) ELSE Zero])
             atomberg_visibility ==
                 RSumSeq([i \in DOMAIN posts |->
                     IF mentions_atomberg(posts[i])
                     THEN get_post_visibility(posts[i]) ELSE Zero])
         IN  IF total_visibility = Zero THEN Zero
             ELSE RDiv(atomberg_visibility, total_visibility)

calculate_visibility_score(posts) ==
    IF posts = <<>> THEN Zero
    ELSE LET total_visibility ==
                 RSumSeq([i \in DOMAIN posts |-> get_post_visibility(posts[i])])
             atomberg_visibility ==
                 RSumSeq([i \in DOMAIN posts |->
                     IF mentions_atomberg(posts[i])
                     THEN get_post_visibility(posts[i]) ELSE Zero])
         IN  IF total_visibility = Zero THEN Zero
             ELSE RDiv(atomberg_visibility, total_visibility)

\* list.sort(reverse=True) of a list of rationals.
RECURSIVE InsertDesc(_, _)
InsertDesc(x, s) ==
    IF s = <<>> THEN <<x>>
    ELSE IF RLe(Head(s), x) THEN <<x>> \o s
    ELSE <<Head(s)>> \o InsertDesc(x, Tail(s))

RECURSIVE SortDesc(_)
SortDesc(s) == IF s = <<>> THEN <<>> ELSE InsertDesc(Head(s), SortDesc(Tail(s)))

\* list.index(x): the first position holding x, counted from 0.
IndexOf(s, x) == (CHOOSE i \in DOMAIN s : s[i] = x /\ \A j \in 1..(i - 1) : s[j] # x) - 1

\* Mutant: the list is sorted ascending (reverse=True forgotten).
calculate_market_rank_ascending(atomberg_engagement, competitor_engagements) ==
    LET descending == SortDesc(competitor_engagements \o <<atomberg_engagement>>)
        all_engagements == [i \in DOMAIN descending |-> descending[Len(descending) + 1 - i]]
    IN  IndexOf(all_engagements, atomberg_engagement) + 1

\* competitor_engagements is the list of the dict's values in insertion order.
calculate_market_rank(atomberg_engagement, competitor_engagements) ==
    LET all_engagements == SortDesc(competitor_engagements \o <<atomberg_engagement>>)
    IN  IndexOf(all_engagements, atomberg_engagement) + 1

mean_engagement(posts) ==
    RDiv(RSumSeq([i \in DOMAIN posts |-> get_post_engagement(posts[i])]), Rat(Len(posts), 1))

calculate_competitive_positioning(posts) ==
    LET direct_comparisons ==
            {i \in DOMAIN posts :
                mentions_atomberg(posts[i]) /\ mentions_competitors(posts[i]) # <<>>}
        scored == SelectIdx(COMPETITORS,
                            {k \in DOMAIN COMPETITORS : CompetitorIdx(posts, COMPETITORS[k]) # {}})
        positioning_scores ==
            [c \in Range(scored) |-> mean_engagement(SelectIdx(posts, CompetitorIdx(posts, c)))]
        atomberg_posts == SelectIdx(posts, AtombergIdx(posts))
        atomberg_avg_engagement ==
            IF atomberg_posts # <<>> THEN mean_engagement(atomberg_posts) ELSE Zero
    IN  [direct_comparisons |-> Cardinality(direct_comparisons),
         atomberg_avg_engagement |-> atomberg_avg_engagement,
         competitor_avg_engagement |-> positioning_scores,
         market_position_rank |->
             calculate_market_rank(atomberg_avg_engagement,
                                   [k \in DOMAIN scored |-> positioning_scores[scored[k]]])]

mention_weight == Rat(4, 10)

engagement_weight == Rat(4, 10)

sentiment_weight == Rat(2, 10)

\* Mutant: the sentiment term is left out of the weighted sum.
calculate_overall_sov_no_sentiment(mention_metrics, engagement_metrics, sentiment_metrics) ==
    LET mention_sov == Get(mention_metrics, "atomberg", Zero)
        engagement_sov == Get(engagement_metrics, "atomberg", Zero)
    IN  RAdd(RMul(mention_sov, mention_weight), RMul(engagement_sov, engagement_weight))

calculate_overall_sov(mention_metrics, engagement_metrics, sentiment_metrics) ==
    LET mention_sov == Get(mention_metrics, "atomberg", Zero)
        engagement_sov == Get(engagement_metrics, "atomberg", Zero)
        sentiment_sov == Get(sentiment_metrics, "positive", Zero)
    IN  RAdd(RAdd(RMul(mention_sov, mention_weight),
                  RMul(engagement_sov, engagement_weight)),
             RMul(sentiment_sov, sentiment_weight))

\* What an uncaught exception leaves the caller with.
Raised(exception) == [raised |-> TRUE, exception |-> exception]

\* Mutant: no early return; statistics.mean of no posts raises StatisticsError.
empty_sov_metrics_unhandled == Raised("StatisticsError")

empty_sov_metrics ==
    [raised |-> FALSE,
     overall_sov |-> Zero,
     mention_share |-> [atomberg |-> Zero, competitors |-> EmptyDict, total_mentions |-> 0],
     engagement_share |-> [atomberg |-> Zero, competitors |-> EmptyDict, total_engagement |-> Zero],
     sentiment_share |-> [positive |-> Zero, atomberg_sentiment_distribution |-> EmptyDict],
     platform_breakdown |-> EmptyDict,
     visibility_score |-> Zero,
     competitive_positioning |-> EmptyDict,
     total_posts_analyzed |-> 0,
     atomberg_mentions |-> 0,
     competitor_mentions |-> 0]

\* for keyword_data in processed_data.values(): for platform_data in ...: extend
RECURSIVE flatten_platforms(_)
flatten_platforms(keyword_data) ==
    IF keyword_data = <<>> THEN <<>>
    ELSE Head(keyword_data).posts \o flatten_platforms(Tail(keyword_data))

RECURSIVE flatten(_)
flatten(data) ==
    IF data = <<>> THEN <<>>
    ELSE flatten_platforms(Head(data).data) \o flatten(Tail(data))


\* Mutant: a post listed in two buckets is counted once.
calculate_sov_distinct_posts(data, sentiments) ==
    LET all_posts == flatten(data)
    IN  IF all_posts = <<>> THEN empty_sov_metrics
        ELSE IF \E i \in DOMAIN all_posts : get_post_visibility_raises(all_posts[i])
        THEN Raised("ZeroDivisionError")
        ELSE
            LET mention_metrics == calculate_mention_share(all_posts)
                engagement_metrics == calculate_engagement_share(all_posts)
                sentiment_metrics == calculate_sentiment_share(all_posts, sentiments)
            IN  [raised |-> FALSE,
                 overall_sov |-> calculate_overall_sov(mention_metrics, engagement_metrics,
                                                       sentiment_metrics),
                 mention_share |-> mention_metrics,
                 engagement_share |-> engagement_metrics,
                 sentiment_share |-> sentiment_metrics,
                 platform_breakdown |-> calculate_platform_breakdown(data),
                 visibility_score |-> calculate_visibility_score(all_posts),
                 competitive_positioning |-> calculate_competitive_positioning(all_posts),
                 total_posts_analyzed |-> Cardinality(Range(all_posts)),
                 atomberg_mentions |-> Cardinality(AtombergIdx(all_posts)),
                 competitor_mentions |->
                     SumSeq([i \in DOMAIN all_posts |-> Len(mentions_competitors(all_posts[i]))])]

calculate_sov(data, sentiments) ==
    LET all_posts == flatten(data)
    IN  IF all_posts = <<>> THEN empty_sov_metrics
        ELSE IF \E i \in DOMAIN all_posts : get_post_visibility_raises(all_posts[i])
        THEN Raised("ZeroDivisionError")
        ELSE
            LET mention_metrics == calculate_mention_share(all_posts)
                engagement_metrics == calculate_engagement_share(all_posts)
                sentiment_metrics == calculate_sentiment_share(all_posts, sentiments)
            IN  [raised |-> FALSE,
                 overall_sov |-> calculate_overall_sov(mention_metrics, engagement_metrics,
                                                       sentiment_metrics),
                 mention_share |-> mention_metrics,
                 engagement_share |-> engagement_metrics,
                 sentiment_share |-> sentiment_metrics,
                 platform_breakdown |-> calculate_platform_breakdown(data),
                 visibility_score |-> calculate_visibility_score(all_posts),
                 competitive_positioning |-> calculate_competitive_positioning(all_posts),
                 total_posts_analyzed |-> Len(all_posts),
                 atomberg_mentions |-> Cardinality(AtombergIdx(all_posts)),
                 competitor_mentions |->
                     SumSeq([i \in DOMAIN all_posts |-> Len(mentions_competitors(all_posts[i]))])]

(***************************************************************************)
(* Specification Spec: one call of calculate_sov on a corpus that the      *)
(* collection loop of analyze_sov shaped (every keyword maps every         *)
(* platform of the run to a list, possibly empty).                         *)
(***************************************************************************)
MaxPosts == 3

Keywords == <<"smart fan", "bldc fan">>

Platforms == <<"youtube", "twitter", "google">>

\* Enriched posts as the collectors and the normalizer leave them.  Ids repeat
\* across keywords (google_{i}, mock_yt_{i}); a record may lack an id, and a
\* post may mention no brand at all.
EnrichedPosts ==
    { [id |-> "p0", platform |-> "youtube", views |-> 5000, likes |-> 100, comments |-> 25,
       mentions_atomberg |-> TRUE, mentions_competitors |-> <<>>],
      [id |-> "p1", platform |-> "youtube", views |-> 5000, likes |-> 0, comments |-> 0,
       mentions_atomberg |-> FALSE, mentions_competitors |-> <<"Havells">>],
      [id |-> "p0", platform |-> "youtube", views |-> 8000, likes |-> 0, comments |-> 0,
       mentions_atomberg |-> FALSE, mentions_competitors |-> <<"Orient">>],
      [platform |-> "youtube", views |-> 0, likes |-> 0, comments |-> 0,
       mentions_atomberg |-> TRUE, mentions_competitors |-> <<"Havells">>],
      [id |-> "p1", platform |-> "twitter", retweets |-> 2, likes |-> 5, replies |-> 1,
       quotes |-> 2, author_followers |-> 100,
       mentions_atomberg |-> TRUE, mentions_competitors |-> <<"Havells", "Orient">>],
      [id |-> "p0", platform |-> "google", position |-> 1, page |-> 1,
       mentions_atomberg |-> TRUE, mentions_competitors |-> <<>>],
      [id |-> "p1", platform |-> "google", position |-> 12, page |-> 0,
       mentions_atomberg |-> FALSE, mentions_competitors |-> <<"Havells">>],
      [id |-> "p1", platform |-> "google", position |-> 3, page |-> 2,
       mentions_atomberg |-> FALSE, mentions_competitors |-> <<>>] }

PostIds == {"p0", "p1"}

SentimentMaps == UNION {[S -> {[sentiment |-> l] : l \in Labels}] : S \in SUBSET PostIds}

NoMetrics == [raised |-> FALSE, pending |-> TRUE]

\* The variables of the aggregation run while another specification runs.
SovIdle ==
    /\ processed_data = <<>>
    /\ sentiment_data = EmptyDict
    /\ sov_metrics = NoMetrics

\* The variables of the per-post functions while another specification runs.
PostIdle ==
    /\ post = EmptyDict
    /\ post_out = EmptyDict

\* The variables of the text processor while another specification runs.
TextIdle ==
    /\ raw_post = EmptyDict
    /\ processed_post = EmptyDict
    /\ recleaned = <<>>

\* The variables of the sentiment analyser while another specification runs.
LexIdle ==
    /\ vader_analyzer = FALSE
    /\ textblob_available = FALSE
    /\ vader_outcome = [raises |-> TRUE]
    /\ textblob_outcome = [raises |-> TRUE]
    /\ analyzed_text = <<>>
    /\ sentiment_result = EmptyDict

\* The variables of the analysis run while another specification runs.
RunIdle ==
    /\ all_results = <<>>
    /\ escaped_exception = ""

Init ==
    /\ pc = "collect"
    /\ RunIdle
    /\ SovIdle
    /\ PostIdle
    /\ TextIdle
    /\ LexIdle

\* analyze_sov's loop: the next keyword gets one list per platform.
AddKeyword ==
    /\ pc = "collect"
    /\ Len(processed_data) < Len(Keywords)
    /\ processed_data' =
          Append(processed_data,
                 [keyword |-> Keywords[Len(processed_data) + 1],
                  data |-> [j \in DOMAIN Platforms |-> [platform |-> Platforms[j], posts |-> <<>>]]])
    /\ UNCHANGED <<pc, sentiment_data, sov_metrics, nonSovVars>>

AddPost(k, j, p) ==
    /\ pc = "collect"
    /\ Len(flatten(processed_data)) < MaxPosts
    /\ p.platform = Platforms[j]
    /\ processed_data' =
          [processed_data EXCEPT ![k].data[j].posts = Append(@, p)]
    /\ UNCHANGED <<pc, sentiment_data, sov_metrics, nonSovVars>>

CalculateSov(sd) ==
    /\ pc = "collect"
    /\ pc' = "calculated"
    /\ sentiment_data' = sd
    /\ sov_metrics' = calculate_sov(processed_data, sd)
    /\ UNCHANGED <<processed_data, nonSovVars>>

Next ==
    \/ AddKeyword
    \/ \E k \in DOMAIN processed_data, j \in DOMAIN Platforms, p \in EnrichedPosts :
          AddPost(k, j, p)
    \/ \E sd \in SentimentMaps : CalculateSov(sd)

Spec == Init /\ [][Next]_vars

(***************************************************************************)
(* Claims checked under Spec.                                              *)
(***************************************************************************)
Returned == pc = "calculated" /\ ~sov_metrics.raised

all_posts == flatten(processed_data)

\* C1: in every result of calculate_sov, 0 <= mention_share.atomberg <= 1, and
\* when total_mentions > 0 the focal share plus all competitor shares is 1.
C1_MentionShareSumsToOne ==
    Returned =>
        LET ms == sov_metrics.mention_share
        IN  /\ RLe(Zero, ms.atomberg)
            /\ RLe(ms.atomberg, One)
            /\ ms.total_mentions > 0 =>
                  RAdd(ms.atomberg, RSumDict(ms.competitors)) = One

C1_Witness ==
    /\ Returned
    /\ sov_metrics.mention_share.total_mentions > 0
    /\ Cardinality(DOMAIN sov_metrics.mention_share.competitors) = 2
    /\ RLt(Zero, sov_metrics.mention_share.atomberg)
    /\ RLt(sov_metrics.mention_share.atomberg, One)
    /\ \E i \in DOMAIN all_posts : Len(mentions_competitors(all_posts[i])) = 2

\* C3: a corpus whose flattened post list is empty makes calculate_sov return,
\* without raising, zero for overall_sov, the counts, visibility_score and the
\* focal mention, engagement and positive-sentiment shares.
C3_EmptyCorpusZeroDefaults ==
    (pc = "calculated" /\ all_posts = <<>>) =>
        /\ ~sov_metrics.raised
        /\ sov_metrics.overall_sov = Zero
        /\ sov_metrics.total_posts_analyzed = 0
        /\ sov_metrics.atomberg_mentions = 0
        /\ sov_metrics.competitor_mentions = 0
        /\ sov_metrics.visibility_score = Zero
        /\ sov_metrics.mention_share.atomberg = Zero
        /\ sov_metrics.engagement_share.atomberg = Zero
        /\ sov_metrics.sentiment_share.positive = Zero

C3_Witness ==
    /\ pc = "calculated"
    /\ Len(processed_data) = 2
    /\ all_posts = <<>>
    /\ sentiment_data # EmptyDict
    /\ sov_metrics.total_posts_analyzed = 0

\* C4: overall_sov is 0.4 x mention share + 0.4 x engagement share + 0.2 x
\* positive-sentiment share of the same result, and lies in [0, 1].
C4_OverallIsWeightedSum ==
    Returned =>
        /\ sov_metrics.overall_sov =
              RAdd(RAdd(RMul(Rat(4, 10), sov_metrics.mention_share.atomberg),
                        RMul(Rat(4, 10), sov_metrics.engagement_share.atomberg)),
                   RMul(Rat(2, 10), sov_metrics.sentiment_share.positive))
        /\ RLe(Zero, sov_metrics.overall_sov)
        /\ RLe(sov_metrics.overall_sov, One)

C4_Witness ==
    /\ Returned
    /\ RLt(Zero, sov_metrics.sentiment_share.positive)
    /\ RLt(sov_metrics.sentiment_share.positive, One)
    /\ RLt(Zero, sov_metrics.mention_share.atomberg)
    /\ sov_metrics.mention_share.atomberg # sov_metrics.engagement_share.atomberg
    /\ RLt(Zero, sov_metrics.overall_sov)
    /\ RLt(sov_metrics.overall_sov, One)

\* The mean post-engagement scalar of the posts with the given indices.
MeanOver(posts, idx) ==
    RDiv(RSumSeq([i \in DOMAIN posts |->
                     IF i \in idx THEN get_post_engagement(posts[i]) ELSE Zero]),
         Rat(Cardinality(idx), 1))

FocalMean(posts) ==
    IF AtombergIdx(posts) = {} THEN Zero ELSE MeanOver(posts, AtombergIdx(posts))

MentionedCompetitors(posts) == {c \in Range(COMPETITORS) : CompetitorIdx(posts, c) # {}}

\* C6: market_position_rank is 1 + the number of competitors with at least one
\* mentioning post whose mean engagement scalar strictly exceeds the focal mean
\* (0 when no post mentions the focal brand); a tie does not count.
C6_MarketRankCountsStrictlyGreater ==
    (Returned /\ all_posts # <<>>) =>
        LET cp == sov_metrics.competitive_positioning
            posts == all_posts
            focal == FocalMean(posts)
            mentioned == MentionedCompetitors(posts)
        IN  /\ cp.atomberg_avg_engagement = focal
            /\ DOMAIN cp.competitor_avg_engagement = mentioned
            /\ \A c \in mentioned :
                  cp.competitor_avg_engagement[c] = MeanOver(posts, CompetitorIdx(posts, c))
            /\ cp.market_position_rank =
                  1 + Cardinality({c \in mentioned :
                                      RLt(focal, MeanOver(posts, CompetitorIdx(posts, c)))})

C6_Witness ==
    /\ Returned
    /\ all_posts # <<>>
    /\ sov_metrics.competitive_positioning.atomberg_avg_engagement = Rat(650, 1)
    /\ sov_metrics.competitive_positioning.competitor_avg_engagement =
          [c \in {"Havells", "Orient"} |-> IF c = "Havells" THEN Rat(500, 1) ELSE Rat(800, 1)]
    /\ sov_metrics.competitive_positioning.market_position_rank = 2

\* Number of brands a post is attributed to: the focal brand and every
\* competitor it names.
BrandCount(p) == (IF mentions_atomberg(p) THEN 1 ELSE 0) + Len(mentions_competitors(p))

FocalEngagement(posts) ==
    RSumSeq([i \in DOMAIN posts |->
        IF mentions_atomberg(posts[i]) THEN get_post_engagement(posts[i]) ELSE Zero])

\* Every post's scalar, in full, once per brand it is attributed to.
CreditedEngagement(posts) ==
    RSumSeq([i \in DOMAIN posts |->
        RMul(Rat(BrandCount(posts[i]), 1), get_post_engagement(posts[i]))])

\* C10: engagement_share.atomberg is the focal posts' summed scalar over the
\* total in which each post's scalar counts in full for every brand it
\* mentions; the shares sum to 1 when the total is positive; atomberg is 0.0
\* and total_engagement 0 when the total is zero.
C10_EngagementShareFullCredit ==
    Returned =>
        LET es == sov_metrics.engagement_share
            posts == all_posts
            credited == CreditedEngagement(posts)
        IN  IF RLt(Zero, credited)
            THEN /\ es.atomberg = RDiv(FocalEngagement(posts), credited)
                 /\ RAdd(es.atomberg, RSumDict(es.competitors)) = One
            ELSE /\ es.atomberg = Zero
                 /\ es.total_engagement = Zero

C10_Witness ==
    /\ Returned
    /\ \E i \in DOMAIN all_posts :
          /\ mentions_atomberg(all_posts[i])
          /\ Len(mentions_competitors(all_posts[i])) = 2
          /\ RLt(Zero, get_post_engagement(all_posts[i]))
    /\ sov_metrics.engagement_share.atomberg = Rat(1, 3)

\* The label the sentiment map holds for a post; neutral when the post's id
\* has no entry.
LabelOf(p) ==
    IF "id" \in DOMAIN p /\ p.id \in DOMAIN sentiment_data
    THEN sentiment_data[p.id].sentiment
    ELSE "neutral"

\* How many of the posts mention the focal brand and are labelled positive.
FocalPositive(posts) ==
    Cardinality({i \in DOMAIN posts :
                    mentions_atomberg(posts[i]) /\ LabelOf(posts[i]) = "positive"})

\* How many of the posts mention competitor c and are labelled positive.
CompetitorPositive(posts, c) ==
    Cardinality({i \in DOMAIN posts :
                    /\ c \in Range(mentions_competitors(posts[i]))
                    /\ LabelOf(posts[i]) = "positive"})

\* C11: sentiment_share.positive is the number of focal-mentioning posts
\* labelled positive over that number plus, summed over the competitors, the
\* number of positive posts mentioning each (0.0 when that is 0); a post whose
\* id has no entry in the sentiment map counts as neutral.
C11_PositiveShareOfPositiveMentions ==
    Returned =>
        LET posts == all_posts
            focal == FocalPositive(posts)
            denominator ==
                focal + SumSeq([k \in DOMAIN COMPETITORS |->
                                   CompetitorPositive(posts, COMPETITORS[k])])
        IN  sov_metrics.sentiment_share.positive =
                IF denominator = 0 THEN Zero ELSE Rat(focal, denominator)

\* A focal post without an entry in the map beside positive focal and
\* competitor posts.
C11_Witness ==
    /\ Returned
    /\ \E i \in DOMAIN all_posts :
          /\ mentions_atomberg(all_posts[i])
          /\ "id" \in DOMAIN all_posts[i]
          /\ all_posts[i].id \notin DOMAIN sentiment_data
    /\ FocalPositive(all_posts) = 1
    /\ sov_metrics.sentiment_share.positive = Rat(1, 2)

\* Focal mentions over focal plus competitor mentions among the given posts.
BucketRatio(posts) ==
    LET focal == Cardinality({i \in DOMAIN posts : mentions_atomberg(posts[i])})
        rivals == SumSeq([i \in DOMAIN posts |-> Len(mentions_competitors(posts[i]))])
    IN  IF focal + rivals = 0 THEN Zero ELSE Rat(focal, focal + rivals)

\* C12: the platform breakdown reports, for each (keyword, platform) bucket
\* independently, the ratio focal mentions / (focal + competitor mentions) of
\* that bucket's posts, and a bucket with zero posts is reported as 0.0
\* rather than omitted from the result.
C12_BreakdownReportsEveryBucket ==
    Returned =>
        \A k \in DOMAIN processed_data :
            \A j \in DOMAIN processed_data[k].data :
                LET bucket == processed_data[k].data[j]
                IN  /\ bucket.platform \in DOMAIN sov_metrics.platform_breakdown
                    /\ sov_metrics.platform_breakdown[bucket.platform]
                          = BucketRatio(bucket.posts)

\* What the breakdown holds when a platform's bucket under the first keyword
\* has focal mentions only and its bucket under the second keyword is empty.
C12_Observed ==
    /\ Returned
    /\ Len(processed_data) = 2
    /\ processed_data[1].data[1].platform = "youtube"
    /\ processed_data[1].data[1].posts # <<>>
    /\ BucketRatio(processed_data[1].data[1].posts) = One
    /\ processed_data[2].data[1].posts = <<>>
    /\ sov_metrics.platform_breakdown = [p \in {"youtube", "twitter", "google"} |-> Zero]

\* The keywords, by position in the corpus, that have a bucket for the platform.
KeywordsWith(data, platform) ==
    {k \in DOMAIN data : \E j \in DOMAIN data[k].data : data[k].data[j].platform = platform}

\* The posts of the platform's bucket under the last keyword that has one.
LastBucket(data, platform) ==
    LET k == CHOOSE m \in KeywordsWith(data, platform) :
                 \A o \in KeywordsWith(data, platform) : o <= m
        j == CHOOSE i \in DOMAIN data[k].data : data[k].data[i].platform = platform
    IN  data[k].data[j].posts

\* C27: platform_breakdown has one entry per platform name; its value is the
\* ratio focal / (focal + competitor mentions) of the platform's bucket under
\* the last keyword of the corpus alone, 0.0 when that bucket is empty,
\* whatever the buckets of earlier keywords hold.
C27_BreakdownKeepsLastBucket ==
    (Returned /\ all_posts # <<>>) =>
        /\ DOMAIN sov_metrics.platform_breakdown
              = {p \in Range(Platforms) : KeywordsWith(processed_data, p) # {}}
        /\ \A p \in DOMAIN sov_metrics.platform_breakdown :
              sov_metrics.platform_breakdown[p] = BucketRatio(LastBucket(processed_data, p))

\* Two keywords: the youtube bucket of the first has focal mentions only, the
\* youtube bucket of the second is empty but its twitter bucket is not.
C27_Witness ==
    /\ Returned
    /\ Len(processed_data) = 2
    /\ BucketRatio(LastBucket(<<processed_data[1]>>, "youtube")) = One
    /\ LastBucket(processed_data, "youtube") = <<>>
    /\ LastBucket(processed_data, "twitter") # <<>>
    /\ sov_metrics.platform_breakdown["youtube"] = Zero

\* The places (keyword, platform, index) of one keyword's buckets that hold a post.
BucketPlaces(data, k) ==
    UNION {{<<k, j, i>> : i \in DOMAIN data[k].data[j].posts} : j \in DOMAIN data[k].data}

\* The sum of the lengths of all (keyword, platform) buckets.
CorpusLength(data) == Cardinality(UNION {BucketPlaces(data, k) : k \in DOMAIN data})

\* C28: in every result of calculate_sov, total_posts_analyzed is the sum of
\* the lengths of all (keyword, platform) buckets, so a post listed under two
\* keywords counts twice, and atomberg_mentions + competitor_mentions equals
\* mention_share.total_mentions.
C28_TotalsAgree ==
    Returned =>
        /\ sov_metrics.total_posts_analyzed = CorpusLength(processed_data)
        /\ sov_metrics.atomberg_mentions + sov_metrics.competitor_mentions
              = sov_metrics.mention_share.total_mentions

\* The same post is the only post of both keywords' youtube buckets, and it
\* mentions a brand.
C28_Witness ==
    /\ Returned
    /\ Len(processed_data) = 2
    /\ Len(processed_data[1].data[1].posts) = 1
    /\ processed_data[2].data[1].posts = processed_data[1].data[1].posts
    /\ sov_metrics.total_posts_analyzed = 2
    /\ sov_metrics.mention_share.total_mentions = 2

\* The visibility scalar summed over the posts with the given indices.
VisibilityOver(posts, idx) ==
    RSumSeq([i \in DOMAIN posts |-> IF i \in idx THEN get_post_visibility(posts[i]) ELSE Zero])

\* C13: visibility_score is the visibility scalar summed over the
\* focal-mentioning posts divided by the scalar summed over all posts of the
\* corpus, brand-mentioning or not; it is 0.0 when that total is 0 and lies in
\* [0, 1] for posts with non-negative counters and page >= 1.
C13_VisibilityScoreOverAllPosts ==
    (Returned /\ all_posts # <<>>) =>
        LET posts == all_posts
            total == VisibilityOver(posts, DOMAIN posts)
            focal == VisibilityOver(posts, AtombergIdx(posts))
        IN  /\ sov_metrics.visibility_score = IF total = Zero THEN Zero ELSE RDiv(focal, total)
            /\ RLe(Zero, sov_metrics.visibility_score)
            /\ RLe(sov_metrics.visibility_score, One)

\* A focal video beside a search result that mentions no brand: the result's
\* scalar, (11 - 3)^2 / 2 = 32, is part of the total.
C13_Witness ==
    /\ Returned
    /\ Len(all_posts) = 2
    /\ \E i, j \in DOMAIN all_posts :
          /\ mentions_atomberg(all_posts[i])
          /\ get_post_visibility(all_posts[i]) = Rat(115, 1)
          /\ ~mentions_atomberg(all_posts[j])
          /\ mentions_competitors(all_posts[j]) = <<>>
          /\ get_post_visibility(all_posts[j]) = Rat(32, 1)
    /\ sov_metrics.visibility_score = Rat(115, 147)

\* C16: calculate_sov returns a metrics object without raising for every
\* non-empty corpus of enriched posts with integer counters, search posts of
\* page 0 and posts without a sentiment entry included.
C16_NonEmptyCorpusReturns ==
    (pc = "calculated" /\ all_posts # <<>>) => ~sov_metrics.raised

\* What the code does with a search post of page 0: 1 / page in
\* _get_post_visibility divides by zero and nothing in calculate_sov catches it.
C16_Observed ==
    /\ pc = "calculated"
    /\ Len(all_posts) = 2
    /\ \E i \in DOMAIN all_posts :
          /\ Get(all_posts[i], "platform", "") = "google"
          /\ Get(all_posts[i], "page", 1) = 0
    /\ \E i \in DOMAIN all_posts : Get(all_posts[i], "platform", "") = "youtube"
    /\ sov_metrics = Raised("ZeroDivisionError")

\* C20: every metrics object calculate_sov returns, the one for an empty corpus
\* included, exposes competitive_positioning with the direct-comparison count,
\* the focal and the per-competitor mean engagement, and an integer rank.
C20_PositioningAlwaysExposed ==
    Returned =>
        /\ DOMAIN sov_metrics.competitive_positioning
              = {"direct_comparisons", "atomberg_avg_engagement",
                 "competitor_avg_engagement", "market_position_rank"}
        /\ sov_metrics.competitive_positioning.direct_comparisons \in Nat
        /\ sov_metrics.competitive_positioning.market_position_rank \in Nat

\* What the code returns for a corpus without posts: _empty_sov_metrics, whose
\* competitive_positioning is the empty dict.
C20_Observed ==
    /\ pc = "calculated"
    /\ Len(processed_data) = 2
    /\ all_posts = <<>>
    /\ ~sov_metrics.raised
    /\ sov_metrics.competitive_positioning = EmptyDict
    /\ sov_metrics.total_posts_analyzed = 0

(***************************************************************************)
(* DataProcessor: engagement standardization of one post.                  *)
(***************************************************************************)
\* dict.update: the keys of fields overwrite or extend those of d.
Update(d, fields) ==
    [k \in (DOMAIN d) \cup (DOMAIN fields) |-> IF k \in DOMAIN fields THEN fields[k] ELSE d[k]]

\* Mutant: the video engagement rate counts likes only.
standardize_engagement_metrics_likes_only(p) ==
    LET platform == Get(p, "platform", "")
    IN  IF platform = "youtube" THEN
            Update(p, [total_engagement |-> Get(p, "likes", 0) + Get(p, "comments", 0),
                       reach_estimate |-> Get(p, "views", 0),
                       engagement_rate |->
                           IF Get(p, "views", 0) > 0
                           THEN Rat(Get(p, "likes", 0), Get(p, "views", 0))
                           ELSE Zero])
        ELSE Update(p, [total_engagement |-> 0, engagement_rate |-> Zero, reach_estimate |-> 0])

standardize_engagement_metrics(p) ==
    LET platform == Get(p, "platform", "")
        views == Get(p, "views", 0)
        likes == Get(p, "likes", 0)
        comments == Get(p, "comments", 0)
        retweets == Get(p, "retweets", 0)
        replies == Get(p, "replies", 0)
        quotes == Get(p, "quotes", 0)
        followers == Get(p, "author_followers", 0)
        tweet_engagement == retweets + likes + replies + quotes
        estimated_clicks ==
            Max(100 - (Get(p, "position", 10) * 5) - (Get(p, "page", 1) * 20), 1)
    IN  IF platform = "youtube" THEN
            Update(p, [total_engagement |-> likes + comments,
                       reach_estimate |-> views,
                       engagement_rate |->
                           IF views > 0 THEN Rat(likes + comments, views) ELSE Zero])
        ELSE IF platform = "twitter" THEN
            Update(p, [total_engagement |-> tweet_engagement,
                       reach_estimate |-> Max(followers, tweet_engagement * 10),
                       engagement_rate |->
                           IF followers > 0 THEN Rat(tweet_engagement, followers) ELSE Zero])
        ELSE IF platform = "google" THEN
            Update(p, [total_engagement |-> estimated_clicks,
                       reach_estimate |-> estimated_clicks * 10,
                       engagement_rate |->
                           IF RLe(Rat(1, 10), Rat(estimated_clicks, 1000))
                           THEN Rat(1, 10) ELSE Rat(estimated_clicks, 1000)])
        ELSE Update(p, [total_engagement |-> 0, engagement_rate |-> Zero, reach_estimate |-> 0])

(***************************************************************************)
(* Specification SpecPost: one post record with integer counters, and the  *)
(* per-post functions applied to it in any order.                          *)
(***************************************************************************)
MaxPosition == 12

MaxPage == 2

VideoPosts ==
    {[platform |-> "youtube", id |-> "v", views |-> v, likes |-> l, comments |-> c] :
        v \in {0, 5000, 8000}, l \in {0, 100}, c \in {0, 25}}

TweetPosts ==
    {[platform |-> "twitter", id |-> "t", retweets |-> r, likes |-> l, replies |-> y,
      quotes |-> q, author_followers |-> f] :
        r \in {0, 2}, l \in {0, 5}, y \in {0, 1}, q \in {0, 2}, f \in {0, 100}}

SearchPosts ==
    {[platform |-> "google", id |-> "g", position |-> n, page |-> g] :
        n \in 1..MaxPosition, g \in 0..MaxPage}
    \cup {[platform |-> "google", id |-> "g"]}

OtherPosts == {[platform |-> "reddit", id |-> "r", likes |-> 5], [id |-> "x", likes |-> 5]}

RawPosts == VideoPosts \cup TweetPosts \cup SearchPosts \cup OtherPosts

InitPost ==
    /\ pc = "post"
    /\ RunIdle
    /\ post \in RawPosts
    /\ post_out = EmptyDict
    /\ SovIdle
    /\ TextIdle
    /\ LexIdle

StandardizePost ==
    /\ pc = "post"
    /\ "standardized" \notin DOMAIN post_out
    /\ post_out' = DictSet(post_out, "standardized", standardize_engagement_metrics(post))
    /\ UNCHANGED <<pc, post, nonPostVars>>

PostEngagement ==
    /\ pc = "post"
    /\ "engagement" \notin DOMAIN post_out
    /\ post_out' = DictSet(post_out, "engagement", get_post_engagement(post))
    /\ UNCHANGED <<pc, post, nonPostVars>>

PostVisibility ==
    /\ pc = "post"
    /\ "visibility" \notin DOMAIN post_out
    /\ post_out' =
          DictSet(post_out, "visibility",
                  IF get_post_visibility_raises(post) THEN Raised("ZeroDivisionError")
                  ELSE get_post_visibility(post))
    /\ UNCHANGED <<pc, post, nonPostVars>>

NextPost == StandardizePost \/ PostEngagement \/ PostVisibility

SpecPost == InitPost /\ [][NextPost]_vars

(***************************************************************************)
(* Claims checked under SpecPost.                                          *)
(***************************************************************************)
\* C7: for a youtube post, engagement_rate is (likes + comments) / views when
\* views > 0 and 0 otherwise, and the post-engagement scalar is
\* views x 0.1 + likes x 1.0 + comments x 2.0; views=5000, likes=100,
\* comments=25 give 0.025 and 650.
C7_VideoRateAndScalar ==
    (pc = "post" /\ Get(post, "platform", "") = "youtube") =>
        /\ "standardized" \in DOMAIN post_out =>
              /\ post.views > 0 =>
                    RMul(post_out["standardized"].engagement_rate, Rat(post.views, 1))
                        = Rat(post.likes + post.comments, 1)
              /\ post.views = 0 => post_out["standardized"].engagement_rate = Zero
              /\ (post.views = 5000 /\ post.likes = 100 /\ post.comments = 25) =>
                    post_out["standardized"].engagement_rate = Rat(25, 1000)
        /\ "engagement" \in DOMAIN post_out =>
              /\ post_out["engagement"] =
                    RAdd(RAdd(RMul(Rat(post.views, 1), Rat(1, 10)), Rat(post.likes, 1)),
                         RMul(Rat(post.comments, 1), Rat(2, 1)))
              /\ (post.views = 5000 /\ post.likes = 100 /\ post.comments = 25) =>
                    post_out["engagement"] = Rat(650, 1)

C7_Witness ==
    /\ pc = "post"
    /\ post = [platform |-> "youtube", id |-> "v", views |-> 5000, likes |-> 100, comments |-> 25]
    /\ {"standardized", "engagement"} \subseteq DOMAIN post_out
    /\ post_out["engagement"] = Rat(650, 1)
    /\ post_out["standardized"].engagement_rate = Rat(1, 40)

\* C8: for a google post the scalar strictly decreases from each position in
\* 1..9 to the next, is 10 for every position >= 10, and is the same for
\* every page.
C8_SearchScalarMonotone ==
    (pc = "post" /\ Get(post, "platform", "") = "google" /\ "position" \in DOMAIN post
        /\ "engagement" \in DOMAIN post_out) =>
        /\ post.position \in 1..9 =>
              RLt(get_post_engagement([post EXCEPT !.position = @ + 1]), post_out["engagement"])
        /\ post.position >= 10 => post_out["engagement"] = Rat(10, 1)
        /\ \A g \in 0..MaxPage :
              get_post_engagement([post EXCEPT !.page = g]) = post_out["engagement"]
        /\ post_out["engagement"] = get_post_engagement([id |-> "g", platform |-> "google",
                                                         position |-> post.position])

C8_Witness ==
    /\ pc = "post"
    /\ Get(post, "platform", "") = "google"
    /\ Get(post, "position", 0) = 12
    /\ Get(post, "page", 0) = 2
    /\ "engagement" \in DOMAIN post_out
    /\ post_out["engagement"] = Rat(10, 1)

\* C17: for a post whose platform is not youtube, twitter or google (a post
\* without platform included) the post-engagement scalar is 1.0 and the
\* visibility scalar equals that engagement scalar; neither computation raises.
C17_UnknownPlatformDefaults ==
    (pc = "post" /\ Get(post, "platform", "") \notin {"youtube", "twitter", "google"}) =>
        /\ "engagement" \in DOMAIN post_out => post_out["engagement"] = One
        /\ "visibility" \in DOMAIN post_out =>
              /\ post_out["visibility"] # Raised("ZeroDivisionError")
              /\ post_out["visibility"] = get_post_engagement(post)
              /\ post_out["visibility"] = One

C17_Witness ==
    /\ pc = "post"
    /\ "platform" \notin DOMAIN post
    /\ {"engagement", "visibility"} \subseteq DOMAIN post_out
    /\ post_out["engagement"] = One
    /\ post_out["visibility"] = One

\* C29: for a google post of page >= 1 the visibility scalar is non-increasing
\* in position over all positions >= 1: no better-ranked result of the same
\* page has less visibility, positions beyond 11 included.
C29_VisibilityNonIncreasingInPosition ==
    (/\ pc = "post"
     /\ Get(post, "platform", "") = "google"
     /\ {"position", "page"} \subseteq DOMAIN post
     /\ Get(post, "page", 1) >= 1
     /\ "visibility" \in DOMAIN post_out) =>
        \A better \in 1..post.position :
            RLe(post_out["visibility"],
                get_post_visibility([post EXCEPT !.position = better]))

\* Position 12 of page 1 has visibility 1, position 11 of the same page has 0.
C29_Observed ==
    /\ pc = "post"
    /\ Get(post, "platform", "") = "google"
    /\ Get(post, "position", 0) = 12
    /\ Get(post, "page", 0) = 1
    /\ "visibility" \in DOMAIN post_out
    /\ post_out["visibility"] = One
    /\ get_post_visibility([post EXCEPT !.position = 11]) = Zero

(***************************************************************************)
(* Text as the regular expressions see it: sequences of characters.        *)
(***************************************************************************)
LowerLetters ==
    <<"a", "b", "c", "d", "e", "f", "g", "h", "i", "j", "k", "l", "m",
      "n", "o", "p", "q", "r", "s", "t", "u", "v", "w", "x", "y", "z">>

UpperLetters ==
    <<"A", "B", "C", "D", "E", "F", "G", "H", "I", "J", "K", "L", "M",
      "N", "O", "P", "Q", "R", "S", "T", "U", "V", "W", "X", "Y", "Z">>

Digits == {"0", "1", "2", "3", "4", "5", "6", "7", "8", "9"}

Letters == Range(LowerLetters) \cup Range(UpperLetters)

\* \w
WordChars == Letters \cup Digits \cup {"_"}

\* \s
Whitespace == {" ", "\t", "\n"}

\* str.lower() and str.upper(), letter by letter.
LowerOf ==
    [c \in Range(UpperLetters) |->
        LowerLetters[CHOOSE k \in DOMAIN UpperLetters : UpperLetters[k] = c]]

UpperOf ==
    [c \in Range(LowerLetters) |->
        UpperLetters[CHOOSE k \in DOMAIN LowerLetters : LowerLetters[k] = c]]

LowerChar(c) == IF c \in DOMAIN LowerOf THEN LowerOf[c] ELSE c

UpperChar(c) == IF c \in DOMAIN UpperOf THEN UpperOf[c] ELSE c

lower(s) == [i \in DOMAIN s |-> LowerChar(s[i])]

upper(s) == [i \in DOMAIN s |-> UpperChar(s[i])]

\* The last index of the longest run, starting at i, of characters that are
\* (inside) or are not (~inside) in cls; i - 1 when the run is empty.
RECURSIVE RunEnd(_, _, _, _)
RunEnd(s, i, cls, inside) ==
    IF i <= Len(s) /\ ((s[i] \in cls) = inside)
    THEN RunEnd(s, i + 1, cls, inside)
    ELSE i - 1

HasPrefixAt(s, i, pre) ==
    /\ i + Len(pre) - 1 <= Len(s)
    /\ SubSeq(s, i, i + Len(pre) - 1) = pre

\* needle in haystack
Contains(haystack, needle) ==
    \E i \in 1..(Len(haystack) - Len(needle) + 1) : HasPrefixAt(haystack, i, needle)

HTTP_PREFIX == <<"h", "t", "t", "p">>

WWW_PREFIX == <<"w", "w", "w">>

HTTPS_PREFIX == <<"h", "t", "t", "p", "s">>

\* Where a match of http\S+|www\S+|https\S+ that starts at i ends; 0: no match.
\* (A text that matches https\S+ at i matches http\S+ there, which is tried first.)
UrlMatchEnd(s, i) ==
    IF s[i] \notin {"h", "w"} THEN 0
    ELSE IF HasPrefixAt(s, i, HTTP_PREFIX) /\ i + 4 <= Len(s) /\ s[i + 4] \notin Whitespace
    THEN RunEnd(s, i + 4, Whitespace, FALSE)
    ELSE IF HasPrefixAt(s, i, WWW_PREFIX) /\ i + 3 <= Len(s) /\ s[i + 3] \notin Whitespace
    THEN RunEnd(s, i + 3, Whitespace, FALSE)
    ELSE IF HasPrefixAt(s, i, HTTPS_PREFIX) /\ i + 5 <= Len(s) /\ s[i + 5] \notin Whitespace
    THEN RunEnd(s, i + 5, Whitespace, FALSE)
    ELSE 0

\* re.sub(r'http\S+|www\S+|https\S+', '', text), scanning from i.
RECURSIVE sub_urls(_, _)
sub_urls(s, i) ==
    IF i > Len(s) THEN <<>>
    ELSE LET e == UrlMatchEnd(s, i)
         IN  IF e > 0 THEN sub_urls(s, e + 1) ELSE <<s[i]>> \o sub_urls(s, i + 1)

\* Where a match of \S+@\S+ that starts at i ends: the greedy \S+ backtracks to
\* an @ that has a non-space character on both sides.  0: no match.
EmailMatchEnd(s, i) ==
    LET e == RunEnd(s, i, Whitespace, FALSE)
    IN  IF \E j \in (i + 1)..(e - 1) : s[j] = "@" THEN e ELSE 0

\* re.sub(r'\S+@\S+', '', text), scanning from i, the start of a run of
\* non-space characters or a space: when no match starts at i, none starts
\* further on in the same run, which is kept whole.
RECURSIVE sub_emails(_, _)
sub_emails(s, i) ==
    IF i > Len(s) THEN <<>>
    ELSE IF s[i] \in Whitespace THEN <<s[i]>> \o sub_emails(s, i + 1)
    ELSE LET e == RunEnd(s, i, Whitespace, FALSE)
         IN  IF EmailMatchEnd(s, i) > 0 THEN sub_emails(s, e + 1)
             ELSE SubSeq(s, i, e) \o sub_emails(s, e + 1)

\* re.sub(r'[@#](\w+)', r'\1', text), scanning from i: the sigil goes, the word stays.
RECURSIVE sub_sigils_keep(_, _)
sub_sigils_keep(s, i) ==
    IF i > Len(s) THEN <<>>
    ELSE IF s[i] \in {"@", "#"} /\ i < Len(s) /\ s[i + 1] \in WordChars
    THEN LET e == RunEnd(s, i + 1, WordChars, TRUE)
         IN  SubSeq(s, i + 1, e) \o sub_sigils_keep(s, e + 1)
    ELSE <<s[i]>> \o sub_sigils_keep(s, i + 1)

\* re.sub(r'[@#]\w+', '', text), scanning from i: sigil and word both go.
RECURSIVE sub_sigils_drop(_, _)
sub_sigils_drop(s, i) ==
    IF i > Len(s) THEN <<>>
    ELSE IF s[i] \in {"@", "#"} /\ i < Len(s) /\ s[i + 1] \in WordChars
    THEN sub_sigils_drop(s, RunEnd(s, i + 1, WordChars, TRUE) + 1)
    ELSE <<s[i]>> \o sub_sigils_drop(s, i + 1)

\* re.sub(r'[cls]{least,}', repl, text), scanning from i.
RECURSIVE sub_runs(_, _, _, _, _)
sub_runs(s, i, cls, least, repl) ==
    IF i > Len(s) THEN <<>>
    ELSE IF s[i] \notin cls THEN <<s[i]>> \o sub_runs(s, i + 1, cls, least, repl)
    ELSE LET e == RunEnd(s, i, cls, TRUE)
         IN  IF e - i + 1 >= least THEN repl \o sub_runs(s, e + 1, cls, least, repl)
             ELSE <<s[i]>> \o sub_runs(s, i + 1, cls, least, repl)

\* The first index of the longest run, ending at i, of characters in cls; i + 1
\* when the run is empty.
RECURSIVE RunStart(_, _, _)
RunStart(s, i, cls) == IF i >= 1 /\ s[i] \in cls THEN RunStart(s, i - 1, cls) ELSE i + 1

\* str.strip()
strip(s) ==
    LET first == RunEnd(s, 1, Whitespace, TRUE) + 1
        last == RunStart(s, Len(s), Whitespace) - 1
    IN  IF first > last THEN <<>> ELSE SubSeq(s, first, last)

\* str.split(): the maximal runs of non-whitespace, in order.
RECURSIVE split_from(_, _)
split_from(s, i) ==
    IF i > Len(s) THEN <<>>
    ELSE IF s[i] \in Whitespace THEN split_from(s, i + 1)
    ELSE <<SubSeq(s, i, RunEnd(s, i, Whitespace, FALSE))>>
         \o split_from(s, RunEnd(s, i, Whitespace, FALSE) + 1)

split(s) == split_from(s, 1)

(***************************************************************************)
(* DataProcessor: cleaning and brand detection.                            *)
(***************************************************************************)
\* [^\w\s\.\!\?\,\;:\-] is replaced by a space.
KeptChars == WordChars \cup Whitespace \cup {".", "!", "?", ",", ";", ":", "-"}

sub_special(s) == [i \in DOMAIN s |-> IF s[i] \in KeptChars THEN s[i] ELSE " "]

collapse_whitespace(s) == strip(sub_runs(s, 1, Whitespace, 1, <<" ">>))

DataProcessor_clean_text(text) ==
    IF text = <<>> THEN <<>>
    ELSE LET t1 == lower(text)
             t2 == sub_urls(t1, 1)
             t3 == sub_emails(t2, 1)
             t4 == sub_sigils_keep(t3, 1)
             t5 == sub_runs(t4, 1, {"!"}, 2, <<"!">>)
             t6 == sub_runs(t5, 1, {"?"}, 2, <<"?">>)
             t7 == sub_runs(t6, 1, {"."}, 3, <<".", ".", ".">>)
             t8 == collapse_whitespace(t7)
             t9 == sub_special(t8)
         IN  collapse_whitespace(t9)

\* self.brand_variations; BrandOrder is the dict's iteration order.
BrandOrder ==
    <<<<"a", "t", "o", "m", "b", "e", "r", "g">>,
      <<"h", "a", "v", "e", "l", "l", "s">>,
      <<"o", "r", "i", "e", "n", "t">>,
      <<"b", "a", "j", "a", "j">>,
      <<"c", "r", "o", "m", "p", "t", "o", "n">>,
      <<"u", "s", "h", "a">>,
      <<"s", "y", "m", "p", "h", "o", "n", "y">>,
      <<"v", "o", "l", "t", "a", "s">>>>

brand_variations ==
    [b \in Range(BrandOrder) |->
        CASE b = <<"a", "t", "o", "m", "b", "e", "r", "g">> ->
            <<<<"a", "t", "o", "m", "b", "e", "r", "g">>,
              <<"a", "t", "o", "m", " ", "b", "e", "r", "g">>,
              <<"a", "t", "o", "m", "b", "u", "r", "g">>,
              <<"a", "t", "o", "m", "b", "e", "r", "g", "s">>>>
          [] b = <<"h", "a", "v", "e", "l", "l", "s">> ->
            <<<<"h", "a", "v", "e", "l", "l", "s">>,
              <<"h", "a", "v", "e", "l", "l">>,
              <<"h", "a", "v", "e", "l", "s">>>>
          [] b = <<"o", "r", "i", "e", "n", "t">> ->
            <<<<"o", "r", "i", "e", "n", "t">>,
              <<"o", "r", "i", "e", "n", "t", "a", "l">>>>
          [] b = <<"b", "a", "j", "a", "j">> ->
            <<<<"b", "a", "j", "a", "j">>,
              <<"b", "a", "j", "a", "j", " ", "e", "l", "e", "c", "t", "r", "i", "c", "a", "l", "s">>>>
          [] b = <<"c", "r", "o", "m", "p", "t", "o", "n">> ->
            <<<<"c", "r", "o", "m", "p", "t", "o", "n">>,
              <<"c", "r", "o", "m", "p", "t", "o", "n", " ", "g", "r", "e", "a", "v", "e", "s">>>>
          [] b = <<"u", "s", "h", "a">> ->
            <<<<"u", "s", "h", "a">>,
              <<"u", "s", "h", "a", " ", "i", "n", "t", "e", "r", "n", "a", "t", "i", "o", "n", "a", "l">>>>
          [] b = <<"s", "y", "m", "p", "h", "o", "n", "y">> ->
            <<<<"s", "y", "m", "p", "h", "o", "n", "y">>,
              <<"s", "y", "m", "p", "h", "o", "n", "y", " ", "a", "i", "r">>>>
          [] b = <<"v", "o", "l", "t", "a", "s">> ->
            <<<<"v", "o", "l", "t", "a", "s">>,
              <<"v", "o", "l", "t", "a", "s", " ", "a", "i", "r">>>>]

\* str.title(): a letter is upper-cased after a non-letter, lower-cased after a letter.
title(s) ==
    [i \in DOMAIN s |->
        IF i = 1 \/ s[i - 1] \notin Letters
        THEN UpperChar(s[i]) ELSE LowerChar(s[i])]

\* self.stop_words
stop_words ==
    {<<"t", "h", "e">>, <<"a">>, <<"a", "n">>, <<"a", "n", "d">>, <<"o", "r">>,
     <<"b", "u", "t">>, <<"i", "n">>, <<"o", "n">>, <<"a", "t">>, <<"t", "o">>,
     <<"f", "o", "r">>, <<"o", "f">>, <<"w", "i", "t", "h">>, <<"b", "y">>, <<"i", "s">>,
     <<"a", "r", "e">>, <<"w", "a", "s">>, <<"w", "e", "r", "e">>, <<"b", "e">>,
     <<"b", "e", "e", "n">>, <<"b", "e", "i", "n", "g">>, <<"h", "a", "v", "e">>,
     <<"h", "a", "s">>, <<"h", "a", "d">>, <<"d", "o">>, <<"d", "o", "e", "s">>,
     <<"d", "i", "d">>, <<"w", "i", "l", "l">>, <<"w", "o", "u", "l", "d">>,
     <<"c", "o", "u", "l", "d">>, <<"s", "h", "o", "u", "l", "d">>}

\* relevant_keywords of _extract_keywords
relevant_keywords ==
    {<<"s", "m", "a", "r", "t">>, <<"i", "n", "t", "e", "l", "l", "i", "g", "e", "n", "t">>,
     <<"i", "o", "t">>, <<"w", "i", "f", "i">>,
     <<"b", "l", "u", "e", "t", "o", "o", "t", "h">>, <<"a", "p", "p">>,
     <<"r", "e", "m", "o", "t", "e">>, <<"c", "o", "n", "t", "r", "o", "l">>,
     <<"e", "n", "e", "r", "g", "y">>, <<"e", "f", "f", "i", "c", "i", "e", "n", "t">>,
     <<"b", "l", "d", "c">>, <<"m", "o", "t", "o", "r">>, <<"s", "p", "e", "e", "d">>,
     <<"t", "i", "m", "e", "r">>, <<"a", "l", "e", "x", "a">>,
     <<"g", "o", "o", "g", "l", "e">>, <<"h", "o", "m", "e">>,
     <<"a", "u", "t", "o", "m", "a", "t", "i", "o", "n">>,
     <<"c", "e", "i", "l", "i", "n", "g">>, <<"f", "a", "n">>, <<"q", "u", "i", "e", "t">>,
     <<"s", "i", "l", "e", "n", "t">>, <<"n", "o", "i", "s", "e">>,
     <<"r", "e", "v", "i", "e", "w">>, <<"r", "a", "t", "i", "n", "g">>,
     <<"p", "r", "i", "c", "e">>, <<"c", "o", "s", "t">>, <<"b", "u", "y">>,
     <<"p", "u", "r", "c", "h", "a", "s", "e">>, <<"i", "n", "s", "t", "a", "l", "l">>,
     <<"s", "e", "t", "u", "p">>, <<"q", "u", "a", "l", "i", "t", "y">>,
     <<"d", "u", "r", "a", "b", "l", "e">>, <<"w", "a", "r", "r", "a", "n", "t", "y">>,
     <<"s", "e", "r", "v", "i", "c", "e">>, <<"s", "u", "p", "p", "o", "r", "t">>,
     <<"c", "o", "m", "p", "a", "r", "e">>, <<"v", "s">>, <<"v", "e", "r", "s", "u", "s">>,
     <<"b", "e", "s", "t">>, <<"t", "o", "p">>,
     <<"r", "e", "c", "o", "m", "m", "e", "n", "d", "e", "d">>}

\* theme_patterns of _identify_themes; ThemeOrder is the dict's iteration order.
ThemeOrder ==
    <<"review", "comparison", "technical", "installation", "purchase", "support", "smart_features", "performance">>

theme_patterns ==
    [t \in Range(ThemeOrder) |->
        CASE t = "review" ->
            {<<"r", "e", "v", "i", "e", "w">>, <<"r", "a", "t", "i", "n", "g">>,
             <<"s", "t", "a", "r", "s">>, <<"f", "e", "e", "d", "b", "a", "c", "k">>,
             <<"o", "p", "i", "n", "i", "o", "n">>,
             <<"e", "x", "p", "e", "r", "i", "e", "n", "c", "e">>}
          [] t = "comparison" ->
            {<<"v", "s">>, <<"v", "e", "r", "s", "u", "s">>,
             <<"c", "o", "m", "p", "a", "r", "e">>,
             <<"c", "o", "m", "p", "a", "r", "i", "s", "o", "n">>,
             <<"b", "e", "t", "t", "e", "r">>, <<"b", "e", "s", "t">>}
          [] t = "technical" ->
            {<<"b", "l", "d", "c">>, <<"m", "o", "t", "o", "r">>, <<"r", "p", "m">>,
             <<"w", "a", "t", "t", "s">>, <<"e", "n", "e", "r", "g", "y">>,
             <<"e", "f", "f", "i", "c", "i", "e", "n", "c", "y">>, <<"i", "o", "t">>}
          [] t = "installation" ->
            {<<"i", "n", "s", "t", "a", "l", "l">>, <<"s", "e", "t", "u", "p">>,
             <<"m", "o", "u", "n", "t", "i", "n", "g">>, <<"w", "i", "r", "i", "n", "g">>,
             <<"a", "s", "s", "e", "m", "b", "l", "y">>}
          [] t = "purchase" ->
            {<<"b", "u", "y">>, <<"p", "r", "i", "c", "e">>, <<"c", "o", "s", "t">>,
             <<"d", "e", "a", "l">>, <<"d", "i", "s", "c", "o", "u", "n", "t">>,
             <<"s", "a", "l", "e">>, <<"o", "f", "f", "e", "r">>}
          [] t = "support" ->
            {<<"s", "e", "r", "v", "i", "c", "e">>, <<"s", "u", "p", "p", "o", "r", "t">>,
             <<"w", "a", "r", "r", "a", "n", "t", "y">>,
             <<"c", "u", "s", "t", "o", "m", "e", "r">>, <<"h", "e", "l", "p">>}
          [] t = "smart_features" ->
            {<<"s", "m", "a", "r", "t">>, <<"a", "p", "p">>, <<"w", "i", "f", "i">>,
             <<"b", "l", "u", "e", "t", "o", "o", "t", "h">>, <<"a", "l", "e", "x", "a">>,
             <<"g", "o", "o", "g", "l", "e">>, <<"r", "e", "m", "o", "t", "e">>}
          [] t = "performance" ->
            {<<"s", "p", "e", "e", "d">>, <<"q", "u", "i", "e", "t">>,
             <<"s", "i", "l", "e", "n", "t">>, <<"a", "i", "r">>, <<"f", "l", "o", "w">>,
             <<"c", "o", "o", "l", "i", "n", "g">>, <<"n", "o", "i", "s", "e">>}]

\* Mutant: only the canonical spelling of the brand is looked for.
detect_brand_mentions_first_variation(text, brand) ==
    IF text = <<>> THEN FALSE
    ELSE LET variations == Get(brand_variations, lower(brand), <<lower(brand)>>)
         IN  Contains(lower(text), variations[1])

detect_brand_mentions(text, brand) ==
    IF text = <<>> THEN FALSE
    ELSE LET variations == Get(brand_variations, lower(brand), <<lower(brand)>>)
         IN  \E k \in DOMAIN variations : Contains(lower(text), variations[k])

\* Mutant: the loop over a brand's variations does not break at the first match.
RECURSIVE competitor_mentions_without_break(_, _, _)
competitor_mentions_without_break(text, b, k) ==
    IF b > Len(BrandOrder) THEN <<>>
    ELSE IF k > Len(brand_variations[BrandOrder[b]])
         THEN competitor_mentions_without_break(text, b + 1, 1)
         ELSE (IF /\ BrandOrder[b] # <<"a", "t", "o", "m", "b", "e", "r", "g">>
                  /\ Contains(lower(text), brand_variations[BrandOrder[b]][k])
               THEN <<title(BrandOrder[b])>> ELSE <<>>)
              \o competitor_mentions_without_break(text, b, k + 1)

detect_competitor_mentions_without_break(text) ==
    IF text = <<>> THEN <<>> ELSE competitor_mentions_without_break(text, 1, 1)

detect_competitor_mentions(text) ==
    IF text = <<>> THEN <<>>
    ELSE LET mentioned(b) ==
                 /\ b # <<"a", "t", "o", "m", "b", "e", "r", "g">>
                 /\ \E k \in DOMAIN brand_variations[b] :
                        Contains(lower(text), brand_variations[b][k])
             found == SelectSeq(BrandOrder, mentioned)
         IN  [k \in DOMAIN found |-> title(found[k])]

\* re.sub(r'[^\w]', '', word)
only_word_chars(word) == SelectSeq(word, LAMBDA c : c \in WordChars)

\* The found_keywords loop of _extract_keywords over words[i..].
RECURSIVE found_keywords_from(_, _, _)
found_keywords_from(words, i, found) ==
    IF i > Len(words) THEN found
    ELSE LET clean_word == only_word_chars(words[i])
         IN  IF /\ clean_word \in relevant_keywords
                /\ clean_word \notin stop_words
                /\ clean_word \notin Range(found)
             THEN found_keywords_from(words, i + 1, Append(found, clean_word))
             ELSE found_keywords_from(words, i + 1, found)

extract_keywords(text) ==
    IF text = <<>> THEN <<>>
    ELSE found_keywords_from(split(lower(text)), 1, <<>>)

identify_themes(text) ==
    IF text = <<>> THEN <<>>
    ELSE LET matches(t) == \E keyword \in theme_patterns[t] : Contains(lower(text), keyword)
         IN  SelectSeq(ThemeOrder, matches)

relevant_themes == {"review", "comparison", "technical", "smart_features", "performance"}

\* Mutant: the content-length factor is counted only when it contributes.
calculate_quality_score_contributing_length(p) ==
    LET word_count == Get(p, "word_count", 0)
        length_score ==
            IF 50 <= word_count /\ word_count <= 200 THEN One
            ELSE IF (20 <= word_count /\ word_count < 50)
                    \/ (200 < word_count /\ word_count <= 300) THEN Rat(7, 10)
            ELSE IF word_count > 10 THEN Rat(3, 10)
            ELSE Zero
        engagement_rate == Get(p, "engagement_rate", Zero)
        normalized_engagement ==
            RDiv(IF RLe(engagement_rate, Rat(1, 10)) THEN engagement_rate ELSE Rat(1, 10),
                 Rat(1, 10))
        themes == Get(p, "themes", <<>>)
        theme_score == Rat(Len(SelectSeq(themes, LAMBDA t : t \in relevant_themes)), 5)
        keywords == Get(p, "keywords", <<>>)
        keyword_score == IF Len(keywords) >= 10 THEN One ELSE Rat(Len(keywords), 10)
        position == Get(p, "position", 10)
        position_score ==
            IF position <= 3 THEN One
            ELSE IF position <= 10 THEN Rat(7, 10)
            ELSE Rat(3, 10)
        is_google == Get(p, "platform", "") = "google"
        score ==
            RAdd(RAdd(RAdd(RAdd(IF word_count > 0 THEN length_score ELSE Zero,
                                IF RLt(Zero, engagement_rate) THEN normalized_engagement
                                ELSE Zero),
                           theme_score),
                      IF Len(keywords) > 0 THEN keyword_score ELSE Zero),
                 IF is_google THEN position_score ELSE Zero)
        factors ==
            (IF word_count > 10 THEN 1 ELSE 0)
            + (IF RLt(Zero, engagement_rate) THEN 1 ELSE 0)
            + 1
            + (IF Len(keywords) > 0 THEN 1 ELSE 0)
            + (IF is_google THEN 1 ELSE 0)
    IN  RDiv(score, Rat(Max(factors, 1), 1))

calculate_quality_score(p) ==
    LET word_count == Get(p, "word_count", 0)
        length_score ==
            IF 50 <= word_count /\ word_count <= 200 THEN One
            ELSE IF (20 <= word_count /\ word_count < 50)
                    \/ (200 < word_count /\ word_count <= 300) THEN Rat(7, 10)
            ELSE IF word_count > 10 THEN Rat(3, 10)
            ELSE Zero
        engagement_rate == Get(p, "engagement_rate", Zero)
        normalized_engagement ==
            RDiv(IF RLe(engagement_rate, Rat(1, 10)) THEN engagement_rate ELSE Rat(1, 10),
                 Rat(1, 10))
        themes == Get(p, "themes", <<>>)
        theme_score == Rat(Len(SelectSeq(themes, LAMBDA t : t \in relevant_themes)), 5)
        keywords == Get(p, "keywords", <<>>)
        keyword_score == IF Len(keywords) >= 10 THEN One ELSE Rat(Len(keywords), 10)
        position == Get(p, "position", 10)
        position_score ==
            IF position <= 3 THEN One
            ELSE IF position <= 10 THEN Rat(7, 10)
            ELSE Rat(3, 10)
        is_google == Get(p, "platform", "") = "google"
        score ==
            RAdd(RAdd(RAdd(RAdd(IF word_count > 0 THEN length_score ELSE Zero,
                                IF RLt(Zero, engagement_rate) THEN normalized_engagement
                                ELSE Zero),
                           theme_score),
                      IF Len(keywords) > 0 THEN keyword_score ELSE Zero),
                 IF is_google THEN position_score ELSE Zero)
        factors ==
            (IF word_count > 0 THEN 1 ELSE 0)
            + (IF RLt(Zero, engagement_rate) THEN 1 ELSE 0)
            + 1
            + (IF Len(keywords) > 0 THEN 1 ELSE 0)
            + (IF is_google THEN 1 ELSE 0)
    IN  RDiv(score, Rat(Max(factors, 1), 1))

\* f"{title} {description} {text}"
joined_fields(p) ==
    Get(p, "title", <<>>) \o <<" ">> \o Get(p, "description", <<>>) \o <<" ">>
        \o Get(p, "text", <<>>)

\* _process_single_post on a post whose text fields are strings; processed_at,
\* the wall-clock time of the call, is left out of the record.
process_single_post(p) ==
    LET text_content ==
            IF Get(p, "text_content", <<>>) # <<>> THEN p.text_content
            ELSE strip(joined_fields(p))
        cleaned == DataProcessor_clean_text(text_content)
        p1 == Update(p, [text_content |-> cleaned,
                         mentions_atomberg |->
                             detect_brand_mentions(cleaned,
                                                   <<"a", "t", "o", "m", "b", "e", "r", "g">>),
                         mentions_competitors |-> detect_competitor_mentions(cleaned),
                         keywords |-> extract_keywords(cleaned),
                         themes |-> identify_themes(cleaned)])
        p2 == standardize_engagement_metrics(p1)
        p3 == Update(p2, [content_length |-> Len(cleaned), word_count |-> Len(split(cleaned))])
    IN  Update(p3, [quality_score |-> calculate_quality_score(p3)])

(***************************************************************************)
(* Specification SpecQuality: _calculate_quality_score on one enriched     *)
(* post, given by the fields the function reads.                           *)
(***************************************************************************)
MaxKeywords == 11

\* Keywords in the order _extract_keywords found them; it lists none twice.
KeywordPool ==
    <<<<"s", "m", "a", "r", "t">>,
      <<"i", "o", "t">>,
      <<"w", "i", "f", "i">>,
      <<"a", "p", "p">>,
      <<"b", "l", "d", "c">>,
      <<"m", "o", "t", "o", "r">>,
      <<"s", "p", "e", "e", "d">>,
      <<"t", "i", "m", "e", "r">>,
      <<"f", "a", "n">>,
      <<"q", "u", "i", "e", "t">>,
      <<"p", "r", "i", "c", "e">>,
      <<"b", "u", "y">>,
      <<"b", "e", "s", "t">>,
      <<"t", "o", "p">>>>

WordCounts == {0, 5, 10, 11, 20, 49, 50, 200, 201, 300, 301}

EngagementRates == {Zero, Rat(1, 40), Rat(1, 10), Rat(1, 2)}

\* Lists _identify_themes can return: themes in the order of theme_patterns.
ThemeLists ==
    {<<>>, <<"review">>, <<"installation", "purchase">>,
     <<"review", "comparison", "technical", "smart_features", "performance">>}

QualityInputs ==
    {[platform |-> f, position |-> n, word_count |-> w, engagement_rate |-> r, themes |-> t,
      keywords |-> SubSeq(KeywordPool, 1, k)] :
        f \in {"youtube", "google"}, n \in {1, 4, 11}, w \in WordCounts,
        r \in EngagementRates, t \in ThemeLists, k \in {0, 1, 9, 10, MaxKeywords}}

InitQuality ==
    /\ pc = "enriched"
    /\ post \in QualityInputs
    /\ post_out = EmptyDict
    /\ RunIdle
    /\ SovIdle
    /\ TextIdle
    /\ LexIdle

\* processed_post['quality_score'] = self._calculate_quality_score(processed_post)
QualityScore ==
    /\ pc = "enriched"
    /\ post_out' = DictSet(post_out, "quality_score", calculate_quality_score(post))
    /\ pc' = "scored"
    /\ UNCHANGED <<post, nonPostVars>>

NextQuality == QualityScore

SpecQuality == InitQuality /\ [][NextQuality]_vars

(***************************************************************************)
(* Claims checked under SpecQuality.                                       *)
(***************************************************************************)
\* The sub-scores that apply to the post, in the order the function adds them.
ContentLengthScore(p) ==
    IF p.word_count \in 50..200 THEN One
    ELSE IF p.word_count \in (20..49) \cup (201..300) THEN Rat(7, 10)
    ELSE IF p.word_count > 10 THEN Rat(3, 10)
    ELSE Zero

PlatformAuthorityScore(p) ==
    IF p.position <= 3 THEN One ELSE IF p.position <= 10 THEN Rat(7, 10) ELSE Rat(3, 10)

ApplicableSubScores(p) ==
    (IF p.word_count > 0 THEN <<ContentLengthScore(p)>> ELSE <<>>)
    \o (IF RLt(Zero, p.engagement_rate)
        THEN <<RMul(Rat(10, 1),
                    IF RLt(p.engagement_rate, Rat(1, 10)) THEN p.engagement_rate
                    ELSE Rat(1, 10))>>
        ELSE <<>>)
    \o <<Rat(Cardinality({i \in DOMAIN p.themes : p.themes[i] \in relevant_themes}), 5)>>
    \o (IF p.keywords # <<>> THEN <<Rat(Min(Len(p.keywords), 10), 10)>> ELSE <<>>)
    \o (IF p.platform = "google" THEN <<PlatformAuthorityScore(p)>> ELSE <<>>)

\* C21: quality_score lies in [0, 1] and is the unweighted mean of exactly the
\* applicable sub-scores: content length (whenever word_count > 0, even when
\* its value is 0), engagement (only if engagement_rate > 0), theme relevance
\* (always), keyword relevance (only if keywords are non-empty) and platform
\* authority (search posts only).
C21_QualityIsMeanOfApplicableSubScores ==
    pc = "scored" =>
        LET applicable == ApplicableSubScores(post)
            quality_score == post_out["quality_score"]
        IN  /\ quality_score = RDiv(RSumSeq(applicable), Rat(Len(applicable), 1))
            /\ RLe(Zero, quality_score)
            /\ RLe(quality_score, One)

\* A post of 5 words, where the content-length factor applies with value 0:
\* (0 + 0.25 + 0.2 + 0.1) / 4.
C21_Witness ==
    /\ pc = "scored"
    /\ post.platform = "youtube"
    /\ post.word_count = 5
    /\ post.engagement_rate = Rat(1, 40)
    /\ post.themes = <<"review">>
    /\ Len(post.keywords) = 1
    /\ Len(ApplicableSubScores(post)) = 4
    /\ post_out["quality_score"] = Rat(11, 80)

(***************************************************************************)
(* Specification SpecText: one raw post whose text is a short string of    *)
(* fragments; it is processed, and its cleaned text is cleaned once more.  *)
(***************************************************************************)
MaxFragments == 3

Fragments ==
    {<<"a", "t", "o", "m">>, <<"A", "T", "O", "M">>, <<"b", "e", "r", "g">>,
     <<"B", "e", "r", "g">>, <<" ">>, <<"#">>, <<"@">>, <<"/">>,
     <<"w", "w">>, <<"w", ".", "c", "o", "m">>,
     <<"h", "t", "t", "p", ":", "/", "/", "x">>}

\* ''.join(parts)
RECURSIVE join(_)
join(parts) == IF parts = <<>> THEN <<>> ELSE Head(parts) \o join(Tail(parts))

RawTexts == {join(parts) : parts \in UNION {[1..n -> Fragments] : n \in 0..MaxFragments}}

\* A search result reaches the processor with a title of at most one fragment
\* and without text_content.
RawTitles == {<<>>} \cup Fragments

\* A tweet as the collector returns it, and a search result whose text the
\* processor has to assemble.
RawTextPosts ==
    {[id |-> "mock_tw_0", platform |-> "twitter", text_content |-> t, text |-> t,
      retweets |-> 2, likes |-> 5, replies |-> 1, quotes |-> 0, author_followers |-> 100] :
        t \in RawTexts}
    \cup {[id |-> "google_0", platform |-> "google", title |-> t, position |-> 1, page |-> 1] :
        t \in RawTitles}

InitText ==
    /\ pc = "raw"
    /\ RunIdle
    /\ raw_post \in RawTextPosts
    /\ processed_post = EmptyDict
    /\ recleaned = <<>>
    /\ SovIdle
    /\ PostIdle
    /\ LexIdle

\* process_search_results hands the post to _process_single_post.
ProcessPost ==
    /\ pc = "raw"
    /\ processed_post' = process_single_post(raw_post)
    /\ pc' = "processed"
    /\ UNCHANGED <<raw_post, recleaned, nonTextVars>>

\* _clean_text applied to the text it produced.
Reclean ==
    /\ pc = "processed"
    /\ recleaned' = DataProcessor_clean_text(processed_post.text_content)
    /\ pc' = "recleaned"
    /\ UNCHANGED <<raw_post, processed_post, nonTextVars>>

NextText == ProcessPost \/ Reclean

SpecText == InitText /\ [][NextText]_vars

\* The text _process_single_post starts from.
raw_text(p) ==
    IF Get(p, "text_content", <<>>) # <<>> THEN p.text_content ELSE strip(joined_fields(p))

(***************************************************************************)
(* Claims checked under SpecText.                                          *)
(***************************************************************************)
\* C2: cleaning is idempotent: _clean_text applied to its own output returns
\* that output unchanged, for every input, including inputs where a sigil sits
\* in or before a URL-like token ('ww#w.com', '#http://x').
C2_CleanIsIdempotent ==
    pc = "recleaned" => recleaned = processed_post.text_content

\* The two inputs the claim names, after both passes.
C2_SigilInUrlToken ==
    /\ pc = "recleaned"
    /\ raw_text(raw_post) = <<"w", "w", "#", "w", ".", "c", "o", "m">>
    /\ processed_post.text_content = <<"w", "w", "w", ".", "c", "o", "m">>
    /\ recleaned = <<>>

FocalVariations ==
    {<<"a", "t", "o", "m", "b", "e", "r", "g">>,
     <<"a", "t", "o", "m", " ", "b", "e", "r", "g">>,
     <<"a", "t", "o", "m", "b", "u", "r", "g">>,
     <<"a", "t", "o", "m", "b", "e", "r", "g", "s">>}

Recased(p, f(_)) ==
    [k \in DOMAIN p |-> IF k \in {"text_content", "title", "text"} THEN f(p[k]) ELSE p[k]]

\* C9: after processing, mentions_atomberg is true iff the cleaned text
\* contains one of atomberg / atom berg / atomburg / atombergs as a substring,
\* and it is the same whatever the letter-casing of the raw text.
C9_MentionsIffVariationInCleanedText ==
    pc = "processed" =>
        /\ processed_post.mentions_atomberg
              = (\E v \in FocalVariations : Contains(processed_post.text_content, v))
        /\ process_single_post(Recased(raw_post, upper)).mentions_atomberg
              = processed_post.mentions_atomberg
        /\ process_single_post(Recased(raw_post, lower)).mentions_atomberg
              = processed_post.mentions_atomberg

\* A mixed-case raw text whose cleaned text holds the variation 'atom berg'
\* only because cleaning turned '/' into a space.
C9_Witness ==
    /\ pc = "processed"
    /\ raw_text(raw_post) = <<"A", "T", "O", "M", "/", "B", "e", "r", "g">>
    /\ processed_post.text_content = <<"a", "t", "o", "m", " ", "b", "e", "r", "g">>
    /\ processed_post.mentions_atomberg

(***************************************************************************)
(* Specification SpecPunct: one tweet whose text is a short string of      *)
(* punctuation marks, a letter and a space; it is processed, and its       *)
(* cleaned text is cleaned once more.                                      *)
(***************************************************************************)
MaxMarks == 4

PunctFragments == {<<"!">>, <<"?">>, <<".">>, <<"a">>, <<" ">>}

PunctTexts == {join(parts) : parts \in UNION {[1..n -> PunctFragments] : n \in 0..MaxMarks}}

InitPunct ==
    /\ pc = "raw"
    /\ RunIdle
    /\ raw_post \in
          {[id |-> "mock_tw_0", platform |-> "twitter", text_content |-> t, text |-> t,
            retweets |-> 2, likes |-> 5, replies |-> 1, quotes |-> 0,
            author_followers |-> 100] : t \in PunctTexts}
    /\ processed_post = EmptyDict
    /\ recleaned = <<>>
    /\ SovIdle
    /\ PostIdle
    /\ LexIdle

SpecPunct == InitPunct /\ [][NextText]_vars

(***************************************************************************)
(* Claims checked under SpecPunct.                                         *)
(***************************************************************************)
\* The collapse the claim describes: a run of three or more '!' becomes '!',
\* of three or more '?' becomes '?', of three or more '.' becomes '...'.
collapse_runs_of_three(text) ==
    sub_runs(sub_runs(sub_runs(text, 1, {"!"}, 3, <<"!">>), 1, {"?"}, 3, <<"?">>),
             1, {"."}, 3, <<".", ".", ".">>)

\* C25: cleaning collapses only runs of three or more punctuation marks: three
\* or more '!' become '!', three or more '?' become '?', three or more '.'
\* become '...'; a run of fewer than three ('!!', '??') is left unchanged.
C25_OnlyRunsOfThreeCollapse ==
    pc = "processed" =>
        processed_post.text_content
            = collapse_whitespace(collapse_runs_of_three(raw_text(raw_post)))

\* A run of two exclamation marks has been cleaned.
C25_Observed ==
    /\ pc = "processed"
    /\ raw_text(raw_post) = <<"a", "!", "!">>
    /\ processed_post.text_content = <<"a", "!">>

(***************************************************************************)
(* Specification SpecBrands: one tweet whose text is a short string of     *)
(* pieces of brand names; it is processed, and its cleaned text is cleaned *)
(* once more.                                                              *)
(***************************************************************************)
MaxNameParts == 3

NameParts ==
    {<<"h", "a", "v", "e", "l">>, <<"l">>, <<"s">>, <<"o", "r", "i", "e", "n", "t">>,
     <<"a", "l">>, <<"U", "s", "h", "a">>, <<"a", "t", "o", "m", "b", "e", "r", "g">>, <<" ">>}

BrandTexts == {join(parts) : parts \in UNION {[1..n -> NameParts] : n \in 0..MaxNameParts}}

InitBrands ==
    /\ pc = "raw"
    /\ RunIdle
    /\ raw_post \in
          {[id |-> "mock_tw_0", platform |-> "twitter", text_content |-> t, text |-> t,
            retweets |-> 2, likes |-> 5, replies |-> 1, quotes |-> 0,
            author_followers |-> 100] : t \in BrandTexts}
    /\ processed_post = EmptyDict
    /\ recleaned = <<>>
    /\ SovIdle
    /\ PostIdle
    /\ LexIdle

SpecBrands == InitBrands /\ [][NextText]_vars

(***************************************************************************)
(* Claims checked under SpecBrands.                                        *)
(***************************************************************************)
Competitors == Range(BrandOrder) \ {<<"a", "t", "o", "m", "b", "e", "r", "g">>}

\* C26: the competitor mentions of a processed post never contain the focal
\* brand, contain the title-cased name of each tracked competitor at most
\* once, and contain a competitor exactly when one of its variations is a
\* substring of the cleaned text.
C26_CompetitorMentionedOnceIffVariationOccurs ==
    pc = "processed" =>
        LET mentions == processed_post.mentions_competitors
        IN  /\ title(<<"a", "t", "o", "m", "b", "e", "r", "g">>) \notin Range(mentions)
            /\ \A i, j \in DOMAIN mentions : mentions[i] = mentions[j] => i = j
            /\ Range(mentions) \subseteq {title(b) : b \in Competitors}
            /\ \A b \in Competitors :
                  title(b) \in Range(mentions)
                      <=> \E k \in DOMAIN brand_variations[b] :
                             Contains(processed_post.text_content, brand_variations[b][k])

\* 'havells' holds two variations of Havells and is listed once.
C26_Witness ==
    /\ pc = "processed"
    /\ processed_post.text_content = <<"h", "a", "v", "e", "l", "l", "s">>
    /\ processed_post.mentions_competitors = <<<<"H", "a", "v", "e", "l", "l", "s">>>>

(***************************************************************************)
(* SentimentAnalyzer.                                                      *)
(***************************************************************************)
\* self.positive_words
positive_words ==
    {<<"e", "x", "c", "e", "l", "l", "e", "n", "t">>, <<"a", "m", "a", "z", "i", "n", "g">>,
     <<"g", "r", "e", "a", "t">>, <<"f", "a", "n", "t", "a", "s", "t", "i", "c">>,
     <<"w", "o", "n", "d", "e", "r", "f", "u", "l">>, <<"a", "w", "e", "s", "o", "m", "e">>,
     <<"o", "u", "t", "s", "t", "a", "n", "d", "i", "n", "g">>,
     <<"s", "u", "p", "e", "r", "b">>, <<"b", "r", "i", "l", "l", "i", "a", "n", "t">>,
     <<"p", "e", "r", "f", "e", "c", "t">>, <<"b", "e", "s", "t">>, <<"l", "o", "v", "e">>,
     <<"l", "i", "k", "e">>, <<"g", "o", "o", "d">>, <<"n", "i", "c", "e">>,
     <<"h", "a", "p", "p", "y">>, <<"s", "a", "t", "i", "s", "f", "i", "e", "d">>,
     <<"r", "e", "c", "o", "m", "m", "e", "n", "d">>,
     <<"i", "m", "p", "r", "e", "s", "s", "e", "d">>, <<"q", "u", "a", "l", "i", "t", "y">>,
     <<"e", "f", "f", "i", "c", "i", "e", "n", "t">>, <<"s", "m", "o", "o", "t", "h">>,
     <<"q", "u", "i", "e", "t">>, <<"r", "e", "l", "i", "a", "b", "l", "e">>,
     <<"d", "u", "r", "a", "b", "l", "e">>, <<"v", "a", "l", "u", "e">>,
     <<"w", "o", "r", "t", "h">>, <<"s", "m", "a", "r", "t">>,
     <<"i", "n", "n", "o", "v", "a", "t", "i", "v", "e">>,
     <<"a", "d", "v", "a", "n", "c", "e", "d">>, <<"m", "o", "d", "e", "r", "n">>,
     <<"s", "l", "e", "e", "k">>, <<"s", "t", "y", "l", "i", "s", "h">>}

\* self.negative_words
negative_words ==
    {<<"t", "e", "r", "r", "i", "b", "l", "e">>, <<"a", "w", "f", "u", "l">>,
     <<"b", "a", "d">>, <<"h", "o", "r", "r", "i", "b", "l", "e">>,
     <<"d", "i", "s", "a", "p", "p", "o", "i", "n", "t", "i", "n", "g">>,
     <<"w", "o", "r", "s", "t">>, <<"h", "a", "t", "e">>,
     <<"d", "i", "s", "l", "i", "k", "e">>, <<"p", "o", "o", "r">>,
     <<"c", "h", "e", "a", "p">>, <<"b", "r", "o", "k", "e", "n">>,
     <<"d", "e", "f", "e", "c", "t", "i", "v", "e">>, <<"u", "s", "e", "l", "e", "s", "s">>,
     <<"w", "a", "s", "t", "e">>, <<"p", "r", "o", "b", "l", "e", "m">>,
     <<"i", "s", "s", "u", "e">>, <<"t", "r", "o", "u", "b", "l", "e">>,
     <<"d", "i", "f", "f", "i", "c", "u", "l", "t">>, <<"h", "a", "r", "d">>,
     <<"c", "o", "m", "p", "l", "i", "c", "a", "t", "e", "d">>, <<"n", "o", "i", "s", "y">>,
     <<"l", "o", "u", "d">>, <<"s", "l", "o", "w">>,
     <<"u", "n", "r", "e", "l", "i", "a", "b", "l", "e">>,
     <<"f", "r", "a", "g", "i", "l", "e">>, <<"e", "x", "p", "e", "n", "s", "i", "v", "e">>,
     <<"o", "v", "e", "r", "p", "r", "i", "c", "e", "d">>}

\* self.negation_words
negation_words ==
    {<<"n", "o", "t">>, <<"n", "o">>, <<"n", "e", "v", "e", "r">>, <<"n", "o", "n", "e">>,
     <<"n", "o", "b", "o", "d", "y">>, <<"n", "o", "t", "h", "i", "n", "g">>,
     <<"n", "e", "i", "t", "h", "e", "r">>, <<"n", "o", "w", "h", "e", "r", "e">>,
     <<"h", "a", "r", "d", "l", "y">>, <<"s", "c", "a", "r", "c", "e", "l", "y">>,
     <<"b", "a", "r", "e", "l", "y">>, <<"d", "o", "n", "'", "t">>,
     <<"d", "o", "e", "s", "n", "'", "t">>, <<"d", "i", "d", "n", "'", "t">>,
     <<"w", "o", "n", "'", "t">>, <<"w", "o", "u", "l", "d", "n", "'", "t">>,
     <<"s", "h", "o", "u", "l", "d", "n", "'", "t">>,
     <<"c", "o", "u", "l", "d", "n", "'", "t">>, <<"c", "a", "n", "'", "t">>,
     <<"c", "a", "n", "n", "o", "t">>}

\* [^\w\s\.\!\?\,\;] is deleted.
SentimentKeptChars == WordChars \cup Whitespace \cup {".", "!", "?", ",", ";"}

SentimentAnalyzer_clean_text(text) ==
    LET t1 == sub_urls(text, 1)
        t2 == sub_emails(t1, 1)
        t3 == sub_sigils_drop(t2, 1)
        t4 == collapse_whitespace(t3)
    IN  SelectSeq(t4, LAMBDA c : c \in SentimentKeptChars)

empty_sentiment_result ==
    [sentiment |-> "neutral", confidence |-> Zero, positive_score |-> Zero,
     negative_score |-> Zero, neutral_score |-> One, analyzer |-> "none"]

\* The scoring loop of _analyze_with_lexicon from words[i] on; the result is
\* <<positive_score, negative_score>>.
RECURSIVE lexicon_counts(_, _, _, _, _)
lexicon_counts(words, i, positive_score, negative_score, negation_context) ==
    IF i > Len(words) THEN <<positive_score, negative_score>>
    ELSE IF words[i] \in negation_words
    THEN lexicon_counts(words, i + 1, positive_score, negative_score, TRUE)
    ELSE LET \* i is 1-based here: Python's i > 0 and i > 2 are i > 1 and i > 3.
             context == IF i > 1 /\ words[i - 1] \notin negation_words /\ i > 3
                        THEN FALSE ELSE negation_context
         IN  IF words[i] \in positive_words
             THEN IF context
                  THEN lexicon_counts(words, i + 1, positive_score, negative_score + 1, context)
                  ELSE lexicon_counts(words, i + 1, positive_score + 1, negative_score, context)
             ELSE IF words[i] \in negative_words
             THEN IF context
                  THEN lexicon_counts(words, i + 1, positive_score + 1, negative_score, context)
                  ELSE lexicon_counts(words, i + 1, positive_score, negative_score + 1, context)
             ELSE lexicon_counts(words, i + 1, positive_score, negative_score, context)

\* Mutant: a tie of the two counts is labelled positive.
analyze_with_lexicon_tie_positive(text) ==
    LET words == split(lower(text))
        counts == lexicon_counts(words, 1, 0, 0, FALSE)
        positive_score == counts[1]
        negative_score == counts[2]
        total_sentiment_words == positive_score + negative_score
    IN  [sentiment |->
             IF total_sentiment_words = 0 THEN "neutral"
             ELSE IF positive_score >= negative_score THEN "positive"
             ELSE "negative",
         confidence |->
             IF total_sentiment_words = 0 THEN Zero
             ELSE IF positive_score > negative_score
             THEN Rat(positive_score, total_sentiment_words)
             ELSE IF negative_score > positive_score
             THEN Rat(negative_score, total_sentiment_words)
             ELSE Rat(1, 2),
         positive_score |-> Rat(positive_score, Max(total_sentiment_words, 1)),
         negative_score |-> Rat(negative_score, Max(total_sentiment_words, 1)),
         neutral_score |-> RAdd(One, Rat(-total_sentiment_words, Max(Len(words), 1))),
         analyzer |-> "lexicon"]

analyze_with_lexicon(text) ==
    LET words == split(lower(text))
        counts == lexicon_counts(words, 1, 0, 0, FALSE)
        positive_score == counts[1]
        negative_score == counts[2]
        total_sentiment_words == positive_score + negative_score
    IN  [sentiment |->
             IF total_sentiment_words = 0 THEN "neutral"
             ELSE IF positive_score > negative_score THEN "positive"
             ELSE IF negative_score > positive_score THEN "negative"
             ELSE "neutral",
         confidence |->
             IF total_sentiment_words = 0 THEN Zero
             ELSE IF positive_score > negative_score
             THEN Rat(positive_score, total_sentiment_words)
             ELSE IF negative_score > positive_score
             THEN Rat(negative_score, total_sentiment_words)
             ELSE Rat(1, 2),
         positive_score |-> Rat(positive_score, Max(total_sentiment_words, 1)),
         negative_score |-> Rat(negative_score, Max(total_sentiment_words, 1)),
         neutral_score |-> RAdd(One, Rat(-total_sentiment_words, Max(Len(words), 1))),
         analyzer |-> "lexicon"]

\* _analyze_with_vader on what polarity_scores returned, or on its raising.
analyze_with_vader(text, outcome) ==
    IF outcome.raises THEN analyze_with_lexicon(text)
    ELSE LET compound == outcome.compound
         IN  [sentiment |-> IF RLe(Rat(5, 100), compound) THEN "positive"
                            ELSE IF RLe(compound, Rat(-5, 100)) THEN "negative"
                            ELSE "neutral",
              confidence |-> Rat(Abs(compound.n), compound.d),
              positive_score |-> outcome.pos,
              negative_score |-> outcome.neg,
              neutral_score |-> outcome.neu,
              compound_score |-> compound,
              analyzer |-> "vader"]

\* _analyze_with_textblob on what TextBlob(text).sentiment returned, or on its raising.
analyze_with_textblob(text, outcome) ==
    IF outcome.raises THEN analyze_with_lexicon(text)
    ELSE LET polarity == outcome.polarity
             magnitude == Rat(Abs(polarity.n), polarity.d)
         IN  [sentiment |-> IF RLt(Rat(1, 10), polarity) THEN "positive"
                            ELSE IF RLt(polarity, Rat(-1, 10)) THEN "negative"
                            ELSE "neutral",
              confidence |-> magnitude,
              polarity |-> polarity,
              subjectivity |-> outcome.subjectivity,
              positive_score |-> IF RLt(Zero, polarity) THEN polarity ELSE Zero,
              negative_score |-> IF RLt(polarity, Zero) THEN magnitude ELSE Zero,
              neutral_score |-> RAdd(One, Rat(-magnitude.n, magnitude.d)),
              analyzer |-> "textblob"]

\* analyze_text with the backends that _initialize_analyzers found; vader and
\* textblob are what the two libraries do when they are called.
analyze_text(text, has_vader, has_textblob, vader, textblob) ==
    IF text = <<>> \/ strip(text) = <<>> THEN empty_sentiment_result
    ELSE LET cleaned_text == SentimentAnalyzer_clean_text(text)
         IN  IF has_vader THEN analyze_with_vader(cleaned_text, vader)
             ELSE IF has_textblob THEN analyze_with_textblob(cleaned_text, textblob)
             ELSE analyze_with_lexicon(cleaned_text)

(***************************************************************************)
(* Specification SpecLex: a SentimentAnalyzer, constructed where either    *)
(* library may or may not be installed, analyses one text of a few words.  *)
(***************************************************************************)
MaxWords == 5

Vocabulary ==
    {<<"e", "x", "c", "e", "l", "l", "e", "n", "t">>,
     <<"a", "n", "d">>,
     <<"n", "o", "t">>,
     <<"n", "o", "i", "s", "y">>}

\* ' '.join(words)
RECURSIVE join_words(_)
join_words(words) ==
    IF words = <<>> THEN <<>>
    ELSE IF Len(words) = 1 THEN Head(words)
    ELSE Head(words) \o <<" ">> \o join_words(Tail(words))

\* 'excellent and quiet, not noisy', a text with punctuation on a lexicon word.
LexiconExample ==
    join_words(<<<<"e", "x", "c", "e", "l", "l", "e", "n", "t">>,
                 <<"a", "n", "d">>,
                 <<"q", "u", "i", "e", "t", ",">>,
                 <<"n", "o", "t">>,
                 <<"n", "o", "i", "s", "y">>>>)

Texts ==
    {join_words(words) : words \in UNION {[1..n -> Vocabulary] : n \in 0..MaxWords}}
        \cup {LexiconExample}

\* What a library may do when it is called: SentimentIntensityAnalyzer.polarity_scores
\* for VADER, TextBlob(text).sentiment for TextBlob.  A library that is not
\* installed cannot answer.
LibraryOutcomes ==
    {[raises |-> TRUE],
     [raises |-> FALSE, compound |-> Rat(-1, 2), pos |-> Zero, neg |-> Rat(1, 2),
      neu |-> Rat(1, 2), polarity |-> Rat(-1, 2), subjectivity |-> Rat(1, 2)]}

InitLex ==
    /\ pc = "constructed"
    /\ RunIdle
    /\ vader_analyzer \in BOOLEAN
    /\ textblob_available \in BOOLEAN
    /\ vader_outcome \in IF vader_analyzer THEN LibraryOutcomes ELSE {[raises |-> TRUE]}
    /\ textblob_outcome \in IF textblob_available THEN LibraryOutcomes ELSE {[raises |-> TRUE]}
    /\ analyzed_text \in Texts
    /\ sentiment_result = EmptyDict
    /\ SovIdle
    /\ PostIdle
    /\ TextIdle

AnalyzeText ==
    /\ pc = "constructed"
    /\ sentiment_result' =
          analyze_text(analyzed_text, vader_analyzer, textblob_available, vader_outcome,
                       textblob_outcome)
    /\ pc' = "analyzed"
    /\ UNCHANGED <<vader_analyzer, textblob_available, vader_outcome, textblob_outcome,
                   analyzed_text, nonLexVars>>

NextLex == AnalyzeText

SpecLex == InitLex /\ [][NextLex]_vars

(***************************************************************************)
(* Claims checked under SpecLex.                                           *)
(***************************************************************************)
\* C5: with the lexicon backend, 'excellent and quiet, not noisy' counts
\* 'excellent', 'quiet' and the negated 'noisy' as three positive hits: label
\* positive, positive_score = 3, negative_score = 0.
C5_LexiconExampleThreeHits ==
    (/\ pc = "analyzed"
     /\ ~vader_analyzer
     /\ ~textblob_available
     /\ analyzed_text = LexiconExample) =>
        /\ sentiment_result.sentiment = "positive"
        /\ sentiment_result.positive_score = Rat(3, 1)
        /\ sentiment_result.negative_score = Zero

\* What the lexicon backend returns for that text: two hits ('quiet,' keeps
\* its comma and is no lexicon word), reported as a fraction of the hits.
C5_Observed ==
    /\ pc = "analyzed"
    /\ ~vader_analyzer
    /\ ~textblob_available
    /\ analyzed_text = LexiconExample
    /\ lexicon_counts(split(lower(SentimentAnalyzer_clean_text(analyzed_text))), 1, 0, 0, FALSE)
          = <<2, 0>>
    /\ sentiment_result =
          [sentiment |-> "positive", confidence |-> One, positive_score |-> One,
           negative_score |-> Zero, neutral_score |-> Rat(3, 5), analyzer |-> "lexicon"]

\* The backend the priority order VADER, TextBlob, lexicon ends at when every
\* backend that raises hands over to the next one.
NextBackendInOrder ==
    IF vader_analyzer /\ ~vader_outcome.raises THEN "vader"
    ELSE IF textblob_available /\ ~textblob_outcome.raises THEN "textblob"
    ELSE "lexicon"

\* C15: when the backend chosen for a text raises, analyze_text falls back to
\* the next backend in the order VADER, TextBlob, lexicon (a VADER failure is
\* retried with TextBlob when TextBlob is available) and ends at the lexicon at
\* the latest: the result of a non-blank text comes from the first backend in
\* that order that is there and does not raise.
C15_FallsBackToNextBackend ==
    (pc = "analyzed" /\ strip(analyzed_text) # <<>>) =>
        sentiment_result.analyzer = NextBackendInOrder

\* What the code does when VADER raises and TextBlob is available and would
\* answer: _analyze_with_vader hands the text to the lexicon, TextBlob is
\* never called.
C15_Observed ==
    /\ pc = "analyzed"
    /\ strip(analyzed_text) # <<>>
    /\ vader_analyzer
    /\ vader_outcome.raises
    /\ textblob_available
    /\ ~textblob_outcome.raises
    /\ sentiment_result.analyzer = "lexicon"
    /\ sentiment_result = analyze_with_lexicon(SentimentAnalyzer_clean_text(analyzed_text))

\* The tokens the lexicon backend scores for the analysed text.
LexiconWords == split(lower(SentimentAnalyzer_clean_text(analyzed_text)))

\* analyze_text ran the lexicon backend as the analyser's own choice.
LexiconChosen ==
    /\ pc = "analyzed"
    /\ ~vader_analyzer
    /\ ~textblob_available
    /\ strip(analyzed_text) # <<>>

\* A negation token occurs within the 3 tokens before words[i].
NegatedWithinThree(words, i) ==
    \E j \in DOMAIN words : i - 3 <= j /\ j < i /\ words[j] \in negation_words

\* The counts when a sentiment word is flipped exactly under NegatedWithinThree.
WindowCounts(words) ==
    <<Cardinality({i \in DOMAIN words :
          \/ words[i] \in positive_words /\ ~NegatedWithinThree(words, i)
          \/ words[i] \in negative_words /\ NegatedWithinThree(words, i)}),
      Cardinality({i \in DOMAIN words :
          \/ words[i] \in negative_words /\ ~NegatedWithinThree(words, i)
          \/ words[i] \in positive_words /\ NegatedWithinThree(words, i)})>>

\* C22: in the lexicon fallback the negation flag stays active for the 3 tokens
\* after a negation token and is cleared for later ones, so a sentiment word is
\* flipped exactly when a negation token occurs within the 3 tokens before it,
\* wherever the word stands in the text.
C22_NegationWindowOfThree ==
    LexiconChosen =>
        LET words == LexiconWords
        IN  lexicon_counts(words, 1, 0, 0, FALSE) = WindowCounts(words)

\* What the code does with 'and not and excellent': 'excellent' is the second
\* token after 'not', but the token before it is no negation and its index is
\* above 2, so the flag is cleared and 'excellent' counts as positive.
C22_Observed ==
    /\ LexiconChosen
    /\ analyzed_text = join_words(<<<<"a", "n", "d">>, <<"n", "o", "t">>, <<"a", "n", "d">>,
                                    <<"e", "x", "c", "e", "l", "l", "e", "n", "t">>>>)
    /\ NegatedWithinThree(LexiconWords, 4)
    /\ lexicon_counts(LexiconWords, 1, 0, 0, FALSE) = <<1, 0>>
    /\ sentiment_result.sentiment = "positive"

\* C23: with p and n the final counts of the lexicon fallback, the label is
\* positive iff p > n, negative iff n > p and neutral otherwise; confidence is
\* max(p, n) / (p + n) when p # n, 0.5 when p = n > 0 and 0.0 when p = n = 0;
\* so it is in [0, 1] and above 0.5 whenever the label is not neutral.
C23_LexiconLabelAndConfidence ==
    (pc = "analyzed" /\ sentiment_result.analyzer = "lexicon") =>
        LET counts == lexicon_counts(LexiconWords, 1, 0, 0, FALSE)
            p == counts[1]
            n == counts[2]
        IN  /\ (sentiment_result.sentiment = "positive") <=> (p > n)
            /\ (sentiment_result.sentiment = "negative") <=> (n > p)
            /\ (sentiment_result.sentiment = "neutral") <=> (p = n)
            /\ p # n => sentiment_result.confidence = Rat(Max(p, n), p + n)
            /\ (p = n /\ p > 0) => sentiment_result.confidence = Rat(1, 2)
            /\ (p = n /\ p = 0) => sentiment_result.confidence = Zero
            /\ RLe(Zero, sentiment_result.confidence)
            /\ RLe(sentiment_result.confidence, One)
            /\ sentiment_result.sentiment # "neutral" =>
                  RLt(Rat(1, 2), sentiment_result.confidence)

\* 'excellent excellent noisy': p = 2, n = 1, positive with confidence 2/3.
C23_Witness ==
    /\ pc = "analyzed"
    /\ sentiment_result.analyzer = "lexicon"
    /\ lexicon_counts(LexiconWords, 1, 0, 0, FALSE) = <<2, 1>>
    /\ sentiment_result.sentiment = "positive"
    /\ sentiment_result.confidence = Rat(2, 3)

\* positive_score + negative_score + neutral_score of the analysis result.
SubScoreSum ==
    RAdd(RAdd(sentiment_result.positive_score, sentiment_result.negative_score),
         sentiment_result.neutral_score)

\* C24: the lexicon fallback's positive_score, negative_score and neutral_score
\* each lie in [0, 1] and the three sum to 1, roughly: here, to within a
\* quarter, so that one sentiment word among several other words does not
\* give a sum well above 1.
C24_SubScoresSumToOne ==
    (pc = "analyzed" /\ sentiment_result.analyzer \in {"lexicon", "none"}) =>
        /\ \A score \in {sentiment_result.positive_score, sentiment_result.negative_score,
                         sentiment_result.neutral_score} :
              RLe(Zero, score) /\ RLe(score, One)
        /\ RLe(Rat(3, 4), SubScoreSum)
        /\ RLe(SubScoreSum, Rat(5, 4))

\* What the code returns for 'excellent and and and': positive_score is the
\* share of the hits that are positive (1/1) and neutral_score the share of
\* the tokens that are no hits (3/4), so the three add up to 1.75.
C24_Observed ==
    /\ LexiconChosen
    /\ analyzed_text = join_words(<<<<"e", "x", "c", "e", "l", "l", "e", "n", "t">>,
                                    <<"a", "n", "d">>, <<"a", "n", "d">>, <<"a", "n", "d">>>>)
    /\ sentiment_result.positive_score = One
    /\ sentiment_result.negative_score = Zero
    /\ sentiment_result.neutral_score = Rat(3, 4)
    /\ SubScoreSum = Rat(7, 4)

(***************************************************************************)
(* The analysis run: steps 2 to 4 of analyze_sov (main.py), with the batch *)
(* loops of DataProcessor.process_search_results and                       *)
(* SentimentAnalyzer.analyze_batch.                                        *)
(*                                                                         *)
(* A raw record may be any Python object, and its fields may hold values   *)
(* of any type, so here a Python value carries its type: python_type is    *)
(* type(v).__name__ and value is v.                                        *)
(***************************************************************************)
PyInt(n) == [python_type |-> "int", value |-> n]

PyStr(s) == [python_type |-> "str", value |-> s]

PyDict(d) == [python_type |-> "dict", value |-> d]

PyNone == [python_type |-> "NoneType", value |-> "None"]

\* The dict with every value stripped of its type.
plain(d) == [k \in DOMAIN d |-> d[k].value]

\* Whether _standardize_engagement_metrics raises TypeError on the dict d: the
\* arithmetic of the branch of d's platform (likes + comments and views > 0;
\* the sum of the four tweet counters, max(followers, ...) and followers > 0;
\* 100 - (position * 5) - (page * 20)) meets a value that is no number.  Exact
\* for dicts with at most one such counter.
standardize_engagement_metrics_raises(d) ==
    LET platform == Get(d, "platform", PyStr(""))
        number(key, default) == Get(d, key, PyInt(default)).python_type = "int"
    IN  IF platform.python_type # "str" THEN FALSE
        ELSE IF platform.value = "youtube" THEN
            ~(number("views", 0) /\ number("likes", 0) /\ number("comments", 0))
        ELSE IF platform.value = "twitter" THEN
            ~(/\ number("retweets", 0)
              /\ number("likes", 0)
              /\ number("replies", 0)
              /\ number("quotes", 0)
              /\ number("author_followers", 0))
        ELSE IF platform.value = "google" THEN
            ~(number("position", 10) /\ number("page", 1))
        ELSE FALSE

\* _process_single_post lets an exception escape: a record without copy() or
\* get() raises inside the try, and the handler's own post.get('id', 'unknown')
\* raises AttributeError again.
process_single_post_escapes(record) == record.python_type # "dict"

\* _process_single_post returns None for a dict: its counters break the
\* arithmetic inside the try, and the handler logs the error and returns None.
process_single_post_returns_none(record) ==
    standardize_engagement_metrics_raises(record.value)

\* for post in posts: ... if processed_post: processed_posts.append(processed_post),
\* on a list from which no exception escapes; the text fields of the records
\* are strings.
process_posts(posts) ==
    LET valid == SelectSeq(posts, LAMBDA record : ~process_single_post_returns_none(record))
    IN  [i \in DOMAIN valid |-> process_single_post(plain(valid[i].value))]

\* process_search_results ends with the exception of the first record that
\* lets one escape.
process_search_results_raises(raw_results) ==
    \E k \in DOMAIN raw_results : \E j \in DOMAIN raw_results[k].data :
        \E i \in DOMAIN raw_results[k].data[j].posts :
            process_single_post_escapes(raw_results[k].data[j].posts[i])

\* process_search_results when it returns: every keyword and platform of the
\* raw results, with the posts that _process_single_post returned.
process_search_results(raw_results) ==
    [k \in DOMAIN raw_results |->
        [keyword |-> raw_results[k].keyword,
         data |-> [j \in DOMAIN raw_results[k].data |->
                      [platform |-> raw_results[k].data[j].platform,
                       posts |-> process_posts(raw_results[k].data[j].posts)]]]]

\* f'unknown_{total_posts}'
unknown_ids ==
    <<"unknown_0", "unknown_1", "unknown_2", "unknown_3", "unknown_4", "unknown_5",
      "unknown_6", "unknown_7">>

\* The loop of analyze_batch over posts[i..], total_posts = i - 1 posts done.
RECURSIVE analyze_posts(_, _, _, _, _)
analyze_posts(posts, i, sentiment_results, has_vader, has_textblob) ==
    IF i > Len(posts) THEN sentiment_results
    ELSE LET post_id == Get(posts[i], "id", unknown_ids[i])
             text_content == Get(posts[i], "text_content", <<>>)
             result == analyze_text(text_content, has_vader, has_textblob, vader_outcome,
                                    textblob_outcome)
         IN  analyze_posts(posts, i + 1, DictSet(sentiment_results, post_id, result),
                           has_vader, has_textblob)

\* Mutant: the batch loop stops before the last post.
analyze_batch_but_last(data, has_vader, has_textblob) ==
    LET posts == flatten(data)
    IN  analyze_posts(SubSeq(posts, 1, Len(posts) - 1), 1, EmptyDict, has_vader, has_textblob)

analyze_batch(data, has_vader, has_textblob) ==
    analyze_posts(flatten(data), 1, EmptyDict, has_vader, has_textblob)

\* Mutant: the aggregation caches each post's sentiment label on the post.
inputs_after_calculate_sov_caching(data, sentiments) ==
    [processed_data |->
         [k \in DOMAIN data |->
             [keyword |-> data[k].keyword,
              data |-> [j \in DOMAIN data[k].data |->
                           [platform |-> data[k].data[j].platform,
                            posts |-> [i \in DOMAIN data[k].data[j].posts |->
                                          DictSet(data[k].data[j].posts[i], "sentiment",
                                                  post_sentiment(data[k].data[j].posts[i],
                                                                 sentiments))]]]]],
     sentiment_data |-> sentiments]

\* The two arguments of calculate_sov when the call is over.  The function only
\* reads them: all_posts.extend copies references into a new list, posts and
\* map are read with .get, and every counter is a local defaultdict.
inputs_after_calculate_sov(data, sentiments) ==
    [processed_data |-> data, sentiment_data |-> sentiments]

(***************************************************************************)
(* Specification SpecRun: the collection loop has filled all_results for   *)
(* one keyword and two platforms; analyze_sov processes the batch, scores  *)
(* the sentiment of every processed post and aggregates.  The analyser was *)
(* constructed without VADER and TextBlob.                                 *)
(***************************************************************************)
MaxRecords == 2

\* Records of the video collector: two regular ones, one with a counter that
\* is no number, one without id, one that carries the id of another record
\* (the collectors number their results anew for every query), and None.
VideoRecords ==
    {PyDict([id |-> PyStr("mock_yt_0"), platform |-> PyStr("youtube"),
             title |-> PyStr(<<"A", "t", "o", "m", "b", "e", "r", "g">>),
             views |-> PyInt(1000), likes |-> PyInt(10), comments |-> PyInt(2)]),
     PyDict([id |-> PyStr("mock_yt_1"), platform |-> PyStr("youtube"),
             title |-> PyStr(<<"n", "o", "i", "s", "y", " ", "f", "a", "n">>),
             views |-> PyInt(500), likes |-> PyInt(0), comments |-> PyInt(1)]),
     PyDict([id |-> PyStr("mock_yt_2"), platform |-> PyStr("youtube"),
             title |-> PyStr(<<"A", "t", "o", "m", "b", "e", "r", "g">>),
             views |-> PyStr(<<"1", ".", "2", "K">>), likes |-> PyInt(10),
             comments |-> PyInt(2)]),
     PyDict([platform |-> PyStr("youtube"),
             title |-> PyStr(<<"g", "r", "e", "a", "t", " ",
                               "a", "t", "o", "m", "b", "e", "r", "g">>),
             views |-> PyInt(1000), likes |-> PyInt(10), comments |-> PyInt(2)]),
     PyDict([id |-> PyStr("mock_yt_0"), platform |-> PyStr("youtube"),
             title |-> PyStr(<<"n", "o", "i", "s", "y", " ", "f", "a", "n">>),
             views |-> PyInt(500), likes |-> PyInt(0), comments |-> PyInt(1)]),
     PyNone}

TweetRecords ==
    {PyDict([id |-> PyStr("mock_tw_0"), platform |-> PyStr("twitter"),
             text_content |-> PyStr(<<"g", "r", "e", "a", "t", " ",
                                      "a", "t", "o", "m", "b", "e", "r", "g">>),
             retweets |-> PyInt(2), likes |-> PyInt(5), replies |-> PyInt(1),
             quotes |-> PyInt(0), author_followers |-> PyInt(100)]),
     PyDict([id |-> PyStr("mock_tw_1"), platform |-> PyStr("twitter"),
             text_content |-> PyStr(<<"f", "a", "n">>),
             retweets |-> PyInt(2), likes |-> PyStr(<<"5">>), replies |-> PyInt(1),
             quotes |-> PyInt(0), author_followers |-> PyInt(100)])}

RecordLists(S) == UNION {[1..n -> S] : n \in 0..MaxRecords}

RawResults ==
    {<<[keyword |-> "smart fan",
        data |-> <<[platform |-> "youtube", posts |-> videos],
                   [platform |-> "twitter", posts |-> tweets]>>]>> :
        videos \in RecordLists(VideoRecords), tweets \in RecordLists(TweetRecords)}

InitRun ==
    /\ pc = "collected"
    /\ all_results \in RawResults
    /\ escaped_exception = ""
    /\ SovIdle
    /\ PostIdle
    /\ TextIdle
    /\ LexIdle

\* Step 2: processed_data = self.data_processor.process_search_results(all_results)
ProcessSearchResults ==
    /\ pc = "collected"
    /\ IF process_search_results_raises(all_results)
       THEN /\ pc' = "raised"
            /\ escaped_exception' = "AttributeError"
            /\ UNCHANGED processed_data
       ELSE /\ pc' = "processed"
            /\ processed_data' = process_search_results(all_results)
            /\ UNCHANGED escaped_exception
    /\ UNCHANGED <<all_results, sentiment_data, sov_metrics, lexVars, nonRunVars>>

\* Step 3: sentiment_results = self.sentiment_analyzer.analyze_batch(processed_data)
AnalyzeBatch ==
    /\ pc = "processed"
    /\ sentiment_data' = analyze_batch(processed_data, vader_analyzer, textblob_available)
    /\ pc' = "analyzed"
    /\ UNCHANGED <<all_results, escaped_exception, processed_data, sov_metrics, lexVars,
                   nonRunVars>>

\* Step 4: sov_metrics = self.sov_calculator.calculate_sov(processed_data, sentiment_results)
CalculateSovOfRun ==
    /\ pc = "analyzed"
    /\ LET outcome == calculate_sov(processed_data, sentiment_data)
           inputs == inputs_after_calculate_sov(processed_data, sentiment_data)
       IN  /\ processed_data' = inputs.processed_data
           /\ sentiment_data' = inputs.sentiment_data
           /\ IF outcome.raised
              THEN /\ pc' = "raised"
                   /\ escaped_exception' = outcome.exception
                   /\ UNCHANGED sov_metrics
              ELSE /\ pc' = "calculated"
                   /\ sov_metrics' = outcome
                   /\ UNCHANGED escaped_exception
    /\ UNCHANGED <<all_results, lexVars, nonRunVars>>

NextRun == ProcessSearchResults \/ AnalyzeBatch \/ CalculateSovOfRun

SpecRun == InitRun /\ [][NextRun]_vars

(***************************************************************************)
(* Claims checked under SpecRun.                                           *)
(***************************************************************************)
\* A record that _process_single_post can process: a dict whose counters are
\* numbers.
WellFormed(record) ==
    /\ record.python_type = "dict"
    /\ \A key \in DOMAIN record.value \ {"id", "platform", "title", "text_content"} :
          record.value[key].python_type = "int"

RecordIds(records) == [i \in DOMAIN records |-> Get(records[i].value, "id", PyStr("")).value]

PostIdsOf(posts) == [i \in DOMAIN posts |-> Get(posts[i], "id", "")]

\* C14: process_search_results drops a malformed record (non-numeric counters,
\* or not a dictionary) and never aborts the batch: once step 2 is over, every
\* keyword and platform of the raw results holds exactly its well-formed
\* records, in their original relative order.
C14_MalformedRecordsDropped ==
    pc # "collected" =>
        /\ Len(processed_data) = Len(all_results)
        /\ \A k \in DOMAIN all_results :
              /\ processed_data[k].keyword = all_results[k].keyword
              /\ Len(processed_data[k].data) = Len(all_results[k].data)
              /\ \A j \in DOMAIN all_results[k].data :
                    /\ processed_data[k].data[j].platform = all_results[k].data[j].platform
                    /\ PostIdsOf(processed_data[k].data[j].posts)
                          = RecordIds(SelectSeq(all_results[k].data[j].posts, WellFormed))

\* What the code does with a record that is no dict: the AttributeError of the
\* handler's post.get leaves process_search_results and analyze_sov, and no
\* post of the batch is returned, the well-formed one before it included.
C14_Observed ==
    /\ pc = "raised"
    /\ escaped_exception = "AttributeError"
    /\ Len(all_results[1].data[1].posts) = 2
    /\ WellFormed(all_results[1].data[1].posts[1])
    /\ all_results[1].data[1].posts[2] = PyNone
    /\ \A i \in DOMAIN all_results[1].data[2].posts : WellFormed(all_results[1].data[2].posts[i])
    /\ processed_data = <<>>

\* The id analyze_batch files the i-th post of the corpus under.
EntryKey(posts, i) == Get(posts[i], "id", unknown_ids[i])

\* C18: in one run of analyze_sov, calculate_sov starts only after
\* process_search_results has enriched every post of every bucket and
\* analyze_batch has produced the sentiment entry of every enriched post.
C18_AggregationAfterEnrichmentAndScoring ==
    [][(pc' = "calculated" \/ sov_metrics' # sov_metrics) =>
          LET posts == flatten(processed_data)
          IN  /\ pc = "analyzed"
              /\ ~process_search_results_raises(all_results)
              /\ processed_data = process_search_results(all_results)
              /\ \A i \in DOMAIN posts :
                    /\ {"mentions_atomberg", "mentions_competitors", "total_engagement",
                        "quality_score"} \subseteq DOMAIN posts[i]
                    /\ EntryKey(posts, i) \in DOMAIN sentiment_data
                    /\ sentiment_data[EntryKey(posts, i)].analyzer = "lexicon"]_vars

C18_Witness ==
    /\ pc = "calculated"
    /\ Len(all_results[1].data[1].posts) = 2
    /\ Len(all_results[1].data[2].posts) = 2
    /\ Len(flatten(processed_data)) = 3
    /\ DOMAIN sentiment_data = {"mock_yt_0", "mock_yt_1", "mock_tw_0"}
    /\ sov_metrics.total_posts_analyzed = 3

C30_AttributedLabelIsOwnLabel ==
    pc = "calculated" =>
        LET posts == flatten(processed_data)
        IN  \A i \in DOMAIN posts :
                post_sentiment(posts[i], sentiment_data)
                    = analyze_text(posts[i].text_content, vader_analyzer, textblob_available,
                                   vader_outcome, textblob_outcome).sentiment

\* The only post of the corpus has no id: its own text is positive, its entry
\* is filed under 'unknown_0', and calculate_sov counts it as neutral.
C30_Observed ==
    /\ pc = "calculated"
    /\ Len(flatten(processed_data)) = 1
    /\ Len(processed_data[1].data[1].posts) = 1
    /\ "id" \notin DOMAIN processed_data[1].data[1].posts[1]
    /\ DOMAIN sentiment_data = {"unknown_0"}
    /\ sentiment_data["unknown_0"].sentiment = "positive"
    /\ post_sentiment(processed_data[1].data[1].posts[1], sentiment_data) = "neutral"
    /\ sov_metrics.sentiment_share.atomberg_sentiment_distribution["neutral"] = One

====
